---------------------------- MODULE Spec2Model ----------------------------
(***************************************************************************)
(* A model of the SL427 frame codec, the stream framer and the user-data  *)
(* assembler of go-sl427.  Bytes are naturals 0..255; a Go nil pointer to *)
(* a byte is Nil.                                                          *)
(***************************************************************************)
EXTENDS Integers, Sequences, FiniteSets, TLC

VARIABLES
    cpc,        \* codec scenario: position of the caller
    region,     \* codec scenario: the user-data region handed to the encoder
    encoded,    \* codec scenario: what EncodePacket returned
    corruption, \* codec scenario: how the wire bytes were damaged before decode
    wire,       \* codec scenario: the bytes handed to DecodePacket
    decoded,    \* codec scenario: what DecodePacket returned
    rpc,        \* reader scenario: position of the caller
    structured, \* reader scenario: the stream is noise+frame segments
    segs,       \* reader scenario: the segments the stream was built from
    stream,     \* reader scenario: the bytes of the underlying io.Reader
    rpos,       \* reader scenario: bytes consumed from the stream so far
    calls,      \* reader scenario: the results of the ReadFrame calls so far
    upc,        \* user-data scenario: position of the caller
    u,          \* user-data scenario: the UserData value
    uvalid,     \* user-data scenario: what u.Validate() returned
    ubytes,     \* user-data scenario: what u.Bytes() returned
    udec,       \* user-data scenario: what NewUserData(ubytes) returned
    apc,        \* address scenario: position of the caller
    address,    \* address scenario: the Address value
    avalid,     \* address scenario: what address.Validate() returned
    abytes,     \* address scenario: what address.Bytes() returned
    aparsed,    \* address scenario: what ParseAddress(abytes) returned
    kpc,        \* control scenario: position of the caller
    ctl,        \* control scenario: the Control value
    ksteps,     \* control scenario: setter calls made so far
    tpc,        \* codec-test scenario: position of TestPacketCodec_Simple
    tdata,      \* codec-test scenario: the test's userData
    tpacket,    \* codec-test scenario: the packet the test builds
    tresult,    \* codec-test scenario: what DecodePacket(packet) returned
    startpc,    \* station scenario: position of the caller of Start
    stoppc,     \* station scenario: position of the caller of Stop
    running,    \* station scenario: Station.running
    stopCh,     \* station scenario: Station.stopCh, "open" or "closed"
    conn,       \* station scenario: Station.conn, "nil", "open" or "closed"
    mu,         \* station scenario: the holder of Station.mu, or "free"
    serialNum,  \* station scenario: Station.serialNum
    task,       \* station scenario: position of heartbeatLoop and uploadLoop
    lastSerial, \* station scenario: what the latest nextSerialNum call returned
    maxEarlier, \* station scenario: the largest value the calls before it returned
    looppc,     \* server scenario: position of acceptLoop
    cancelled,  \* server scenario: ctx is done
    registry,   \* server scenario: Server.conns, remote address -> handler
    cstate,     \* server scenario: the state of each connection
    raddr,      \* server scenario: the remote address of each connection
    cur,        \* server scenario: the connection acceptLoop is working on
    hpc,        \* handler scenario: position of Handle
    hstream,    \* handler scenario: the bytes the connection delivers before it fails
    hpos,       \* handler scenario: bytes consumed from the bufio.Reader
    hevents,    \* handler scenario: the outcome of each readPacket / HandlePacket
    hclosed,    \* handler scenario: the connection has been closed
    hfail,      \* handler scenario: the error of a read past the last byte
    hret,       \* handler scenario: what Handle returned
    epc,        \* re-encode scenario: position of the caller
    eframe,     \* re-encode scenario: the bytes of the original frame
    edec,       \* re-encode scenario: what DecodePacket(eframe) returned
    eud,        \* re-encode scenario: what NewUserData returned
    eregion,    \* re-encode scenario: what UserData.Bytes() returned
    eout,       \* re-encode scenario: what EncodePacket returned
    ppc,        \* packet scenario: position of the caller
    pmode,      \* packet scenario: "build" a packet or parse "raw" bytes
    pargs,      \* packet scenario: the arguments of NewPacket and the serial number
    pkt,        \* packet scenario: the Packet NewPacket returned
    pbytes,     \* packet scenario: the bytes handed to Parse
    pparsed,    \* packet scenario: what Parse(pbytes) returned
    preenc,     \* packet scenario: what Bytes() of the parsed packet returned
    bpc,        \* BCD scenario: position of the caller
    bmode,      \* BCD scenario: "int" for EncodeInt/DecodeInt, "byte" for ToBCD/FromBCD
    bn,         \* BCD scenario: the integer n
    bk,         \* BCD scenario: the byte count
    benc,       \* BCD scenario: what EncodeInt or ToBCD returned
    bdec,       \* BCD scenario: what DecodeInt or FromBCD returned
    pupc,       \* upload scenario: position of the caller
    pusrc,      \* upload scenario: what the payload was built from
    pudata,     \* upload scenario: the payload handed to ParseUploadData
    puresult,   \* upload scenario: what ParseUploadData returned
    mpc,        \* measurement scenario: position of the caller
    mtype,      \* measurement scenario: the command and type code
    mfield,     \* measurement scenario: the data field
    mresult,    \* measurement scenario: what types.ParseUploadData did
    wpc,        \* raw user-data scenario: position of the caller
    wdata,      \* raw user-data scenario: the bytes handed to NewUserData
    wud,        \* raw user-data scenario: what NewUserData returned
    wtrace,     \* raw user-data scenario: the indices NewUserData read
    wkpc,       \* metrics scenario: position of each worker in HandlePacket
    wkcmd,      \* metrics scenario: the command of the packet each worker handles
    PacketsReceived, \* metrics scenario: Metrics.PacketsReceived
    PacketsSent, \* metrics scenario: Metrics.PacketsSent
    PacketsDropped, \* metrics scenario: Metrics.PacketsDropped
    ProcessingLatency, \* metrics scenario: Metrics.ProcessingLatency (the worker that wrote it)
    handled,    \* metrics scenario: HandlePacket calls begun
    completed,  \* metrics scenario: HandlePacket calls that returned
    lpc,        \* lifecycle scenario: "ready" for the next call, or "panicked"
    lrunning,   \* lifecycle scenario: Station.running
    lconn,      \* lifecycle scenario: Station.conn, "nil", "open" or "closed"
    lcloses,    \* lifecycle scenario: the close(s.stopCh) statements executed
    lloops,     \* lifecycle scenario: the loop goroutines alive
    lhist       \* lifecycle scenario: the outcome of each call so far

vars == <<cpc, region, encoded, corruption, wire, decoded,
          rpc, structured, segs, stream, rpos, calls,
          upc, u, uvalid, ubytes, udec,
          apc, address, avalid, abytes, aparsed,
          kpc, ctl, ksteps,
          tpc, tdata, tpacket, tresult,
          startpc, stoppc, running, stopCh, conn, mu, serialNum, task,
          lastSerial, maxEarlier,
          looppc, cancelled, registry, cstate, raddr, cur,
          hpc, hstream, hpos, hevents, hclosed, hfail, hret,
          epc, eframe, edec, eud, eregion, eout,
          ppc, pmode, pargs, pkt, pbytes, pparsed, preenc,
          bpc, bmode, bn, bk, benc, bdec,
          pupc, pusrc, pudata, puresult,
          mpc, mtype, mfield, mresult,
          wpc, wdata, wud, wtrace,
          wkpc, wkcmd, PacketsReceived, PacketsSent, PacketsDropped, ProcessingLatency, handled, completed,
          lpc, lrunning, lconn, lcloses, lloops, lhist>>

codecVars == <<cpc, region, encoded, corruption, wire, decoded>>
readerVars == <<rpc, structured, segs, stream, rpos, calls>>
userVars == <<upc, u, uvalid, ubytes, udec>>
addrVars == <<apc, address, avalid, abytes, aparsed>>
ctrlVars == <<kpc, ctl, ksteps>>
testVars == <<tpc, tdata, tpacket, tresult>>
stationVars ==
    <<startpc, stoppc, running, stopCh, conn, mu, serialNum, task,
      lastSerial, maxEarlier>>
serverVars == <<looppc, cancelled, registry, cstate, raddr, cur>>
handlerVars == <<hpc, hstream, hpos, hevents, hclosed, hfail, hret>>
echoVars == <<epc, eframe, edec, eud, eregion, eout>>
packetVars == <<ppc, pmode, pargs, pkt, pbytes, pparsed, preenc>>
bcdVars == <<bpc, bmode, bn, bk, benc, bdec>>
uploadVars == <<pupc, pusrc, pudata, puresult>>
measureVars == <<mpc, mtype, mfield, mresult>>
rawVars == <<wpc, wdata, wud, wtrace>>
metricsVars == <<wkpc, wkcmd, PacketsReceived, PacketsSent, PacketsDropped, ProcessingLatency, handled, completed>>
lifecycleVars == <<lpc, lrunning, lconn, lcloses, lloops, lhist>>

\* what the steps of one scenario leave alone
nonCodecVars ==
    <<readerVars, userVars, addrVars, ctrlVars, testVars,
      stationVars, serverVars, handlerVars, echoVars, packetVars,
      bcdVars, uploadVars, measureVars, rawVars, metricsVars,
      lifecycleVars>>
nonReaderVars ==
    <<codecVars, userVars, addrVars, ctrlVars, testVars,
      stationVars, serverVars, handlerVars, echoVars, packetVars,
      bcdVars, uploadVars, measureVars, rawVars, metricsVars,
      lifecycleVars>>
nonUserVars ==
    <<codecVars, readerVars, addrVars, ctrlVars, testVars,
      stationVars, serverVars, handlerVars, echoVars, packetVars,
      bcdVars, uploadVars, measureVars, rawVars, metricsVars,
      lifecycleVars>>
nonAddrVars ==
    <<codecVars, readerVars, userVars, ctrlVars, testVars,
      stationVars, serverVars, handlerVars, echoVars, packetVars,
      bcdVars, uploadVars, measureVars, rawVars, metricsVars,
      lifecycleVars>>
nonCtrlVars ==
    <<codecVars, readerVars, userVars, addrVars, testVars,
      stationVars, serverVars, handlerVars, echoVars, packetVars,
      bcdVars, uploadVars, measureVars, rawVars, metricsVars,
      lifecycleVars>>
nonTestVars ==
    <<codecVars, readerVars, userVars, addrVars, ctrlVars,
      stationVars, serverVars, handlerVars, echoVars, packetVars,
      bcdVars, uploadVars, measureVars, rawVars, metricsVars,
      lifecycleVars>>
nonStationVars ==
    <<codecVars, readerVars, userVars, addrVars, ctrlVars,
      testVars, serverVars, handlerVars, echoVars, packetVars,
      bcdVars, uploadVars, measureVars, rawVars, metricsVars,
      lifecycleVars>>
nonServerVars ==
    <<codecVars, readerVars, userVars, addrVars, ctrlVars,
      testVars, stationVars, handlerVars, echoVars, packetVars,
      bcdVars, uploadVars, measureVars, rawVars, metricsVars,
      lifecycleVars>>
nonHandlerVars ==
    <<codecVars, readerVars, userVars, addrVars, ctrlVars,
      testVars, stationVars, serverVars, echoVars, packetVars,
      bcdVars, uploadVars, measureVars, rawVars, metricsVars,
      lifecycleVars>>
nonEchoVars ==
    <<codecVars, readerVars, userVars, addrVars, ctrlVars,
      testVars, stationVars, serverVars, handlerVars, packetVars,
      bcdVars, uploadVars, measureVars, rawVars, metricsVars,
      lifecycleVars>>
nonPacketVars ==
    <<codecVars, readerVars, userVars, addrVars, ctrlVars,
      testVars, stationVars, serverVars, handlerVars, echoVars,
      bcdVars, uploadVars, measureVars, rawVars, metricsVars,
      lifecycleVars>>
nonBcdVars ==
    <<codecVars, readerVars, userVars, addrVars, ctrlVars,
      testVars, stationVars, serverVars, handlerVars, echoVars,
      packetVars, uploadVars, measureVars, rawVars, metricsVars,
      lifecycleVars>>
nonUploadVars ==
    <<codecVars, readerVars, userVars, addrVars, ctrlVars,
      testVars, stationVars, serverVars, handlerVars, echoVars,
      packetVars, bcdVars, measureVars, rawVars, metricsVars,
      lifecycleVars>>
nonMeasureVars ==
    <<codecVars, readerVars, userVars, addrVars, ctrlVars,
      testVars, stationVars, serverVars, handlerVars, echoVars,
      packetVars, bcdVars, uploadVars, rawVars, metricsVars,
      lifecycleVars>>
nonRawVars ==
    <<codecVars, readerVars, userVars, addrVars, ctrlVars,
      testVars, stationVars, serverVars, handlerVars, echoVars,
      packetVars, bcdVars, uploadVars, measureVars, metricsVars,
      lifecycleVars>>
nonMetricsVars ==
    <<codecVars, readerVars, userVars, addrVars, ctrlVars,
      testVars, stationVars, serverVars, handlerVars, echoVars,
      packetVars, bcdVars, uploadVars, measureVars, rawVars,
      lifecycleVars>>
nonLifecycleVars ==
    <<codecVars, readerVars, userVars, addrVars, ctrlVars,
      testVars, stationVars, serverVars, handlerVars, echoVars,
      packetVars, bcdVars, uploadVars, measureVars, rawVars,
      metricsVars>>

-----------------------------------------------------------------------------
(* Bounds of the model *)

\* longest enumerated user-data region of the codec scenario
MaxRegionLen == 2
\* most frames in a structured stream
MaxFrames == 2
\* most noise bytes before one frame
MaxNoise == 2
\* longest unstructured stream
MaxStreamLen == 6
\* most ReadFrame calls on one Reader
MaxCalls == 3
\* longest enumerated data field
MaxDataLen == 2
\* most setter calls on one Control
MaxControlCalls == 2
\* longest enumerated userData of the codec test
MaxTestDataLen == 3
\* Config.MaxConns of the server scenario
MaxConns == 2
\* most connections the listener hands to acceptLoop
MaxAccepts == 4
\* most chunks (frames, damaged frames, stray bytes) in a handler stream
MaxChunks == 3
MaxByteCount == 6
MaxItems == 2
MaxFieldLen == 5
MaxFlipBytes == 8
MaxRestLen == 3
MaxWorkers == 2
MaxHandled == 3
MaxLifecycleCalls == 4

-----------------------------------------------------------------------------
(* Program constants *)

\* 0x68
StartFlag == 104
\* 0x16
EndFlag == 22
MinFrameLen == 7
MaxFrameLen == 255
AddressLen == 5
FeatureCode == 0
InvalidAddr == 0
\* 0xE4
poly == 228
\* a nil *byte
Nil == -1

HeaderLen == 9
ChecksumLen == 2
EndFlagLen == 1
MinPacketLen == HeaderLen + ChecksumLen + EndFlagLen
MaxPacketLen == 1024

-----------------------------------------------------------------------------
(* Byte arithmetic of Go *)

RECURSIVE XorBits(_, _, _)
XorBits(a, b, n) ==
    IF n = 0 THEN 0
    ELSE (((a % 2) + (b % 2)) % 2) + 2 * XorBits(a \div 2, b \div 2, n - 1)

\* a ^ b on bytes.  The operands are applied as arguments of a function, so
\* that each is computed once, as Go computes an operand once.
Xor(a, b) == [x \in 0..255, y \in 0..255 |-> XorBits(x, y, 8)][a, b]

\* byte(a << 1)
Shl1(a) == (a * 2) % 256

\* a >> 4 and a & 0x0F
HighNibble(a) == a \div 16
LowNibble(a) == a % 16

RECURSIVE SeqsUpTo(_, _)
\* all sequences over S of length at most n
SeqsUpTo(S, n) ==
    IF n = 0 THEN {<<>>}
    ELSE LET shorter == SeqsUpTo(S, n - 1)
         IN shorter \cup {Append(s, x) : s \in shorter, x \in S}

\* n copies of byte b
Fill(b, n) == [i \in 1..n |-> b]

-----------------------------------------------------------------------------
(* codec.PacketCodec *)

\* an inner loop that shifts and never applies the polynomial
CrcShiftNoPoly(crc) == Shl1(crc)

\* one pass of the inner loop of calculateCS
CrcShift(crc) ==
    IF crc \div 128 # 0 THEN Xor(Shl1(crc), poly) ELSE Shl1(crc)

RECURSIVE CrcShifts(_, _)
\* n passes of the inner loop; crc is a byte variable, so each pass works on
\* the value the pass before left
CrcShifts(crc, n) ==
    IF n = 0 THEN crc
    ELSE CrcShifts([c \in 0..255 |-> CrcShift(c)][crc], n - 1)

RECURSIVE CrcFold(_, _, _, _)
\* the outer loop of calculateCS over data[lo..hi], starting from crc.  The
\* bytes are folded left to right; the range is halved only to keep TLC's
\* evaluation stack shallow on a 255-byte region, and the crc the left half
\* leaves is applied to the right half as a value, computed once.
CrcFold(crc, data, lo, hi) ==
    IF lo > hi THEN crc
    ELSE IF lo = hi THEN CrcShifts(Xor(crc, data[lo]), 8)
    ELSE LET mid == (lo + hi) \div 2
             right[left \in 0..255] == CrcFold(left, data, mid + 1, hi)
         IN right[CrcFold(crc, data, lo, mid)]

calculateCS(data) == CrcFold(0, data, 1, Len(data)) % 128

\* a Frame built by a caller around region r: both markers 0x68, Length = byte(len(r))
NewFrame(r) ==
    [Head |-> [StartFlag1 |-> StartFlag, Length |-> Len(r) % 256, StartFlag2 |-> StartFlag],
     UserDataRaw |-> r, CS |-> 0, EndFlag |-> EndFlag]

NoFrame ==
    [Head |-> [StartFlag1 |-> 0, Length |-> 0, StartFlag2 |-> 0],
     UserDataRaw |-> <<>>, CS |-> 0, EndFlag |-> 0]

EncodePacket(frame) ==
    [err |-> "none",
     bytes |-> <<frame.Head.StartFlag1, frame.Head.Length, frame.Head.StartFlag2>>
               \o frame.UserDataRaw
               \o <<calculateCS(frame.UserDataRaw), EndFlag>>]

DecodePacket(data) ==
    IF Len(data) < MinFrameLen THEN [err |-> "too_short", frame |-> NoFrame]
    ELSE IF data[1] # StartFlag \/ data[3] # StartFlag
    THEN [err |-> "start_flag", frame |-> NoFrame]
    ELSE IF data[Len(data)] # EndFlag THEN [err |-> "end_flag", frame |-> NoFrame]
    ELSE IF Len(data) # data[2] + 5 THEN [err |-> "length", frame |-> NoFrame]
    ELSE LET userData == SubSeq(data, 4, Len(data) - 2)
             actualCS == data[Len(data) - 1]
         IN IF calculateCS(userData) # actualCS
            THEN [err |-> "checksum", frame |-> NoFrame]
            ELSE [err |-> "none",
                  frame |-> [Head |-> [StartFlag1 |-> data[1], Length |-> data[2],
                                       StartFlag2 |-> data[3]],
                             UserDataRaw |-> userData,
                             CS |-> actualCS,
                             EndFlag |-> data[Len(data)]]]

RECURSIVE testCalculateCS(_)
\* the calculateCS of packet_codec_test.go: cs ^= b over the bytes
testCalculateCS(data) ==
    IF data = <<>> THEN 0
    ELSE Xor(testCalculateCS(SubSeq(data, 1, Len(data) - 1)), data[Len(data)])

\* the packet TestPacketCodec_Simple builds around userData: 0x68, L, 0x68,
\* userData, cs, 0x16
TestPacket(userData) ==
    <<StartFlag, Len(userData) % 256, StartFlag>>
        \o userData \o <<testCalculateCS(userData), EndFlag>>

-----------------------------------------------------------------------------
(* packet.Reader *)

\* a seek loop that finds the start flag but leaves it unread
RECURSIVE SeekStartKeepsFlag(_, _)
SeekStartKeepsFlag(s, p) ==
    IF p >= Len(s) THEN [found |-> FALSE, pos |-> p]
    ELSE IF s[p + 1] = StartFlag THEN [found |-> TRUE, pos |-> p]
    ELSE SeekStartKeepsFlag(s, p + 1)

RECURSIVE SeekStart(_, _)
\* the loop that looks for the frame head: reads bytes from position p on
\* until one is the start flag or the stream ends
SeekStart(s, p) ==
    IF p >= Len(s) THEN [found |-> FALSE, pos |-> p]
    ELSE IF s[p + 1] = StartFlag THEN [found |-> TRUE, pos |-> p + 1]
    ELSE SeekStart(s, p + 1)

\* a read that forgets the end flag
RemainingBytesNoEndFlag(length) == length + 1

\* user-data region + CS + EndFlag
RemainingBytes(length) == length + 2

\* one ReadFrame call on a Reader that has consumed p bytes of s
ReadFrame(s, p) ==
    IF p >= Len(s) THEN [err |-> "read_start", frame |-> <<>>, pos |-> p]
    ELSE
    LET seek == IF s[p + 1] # StartFlag THEN SeekStart(s, p + 1)
                ELSE [found |-> TRUE, pos |-> p + 1]
        p1 == seek.pos
    IN
    IF ~seek.found THEN [err |-> "seek_start", frame |-> <<>>, pos |-> p1]
    ELSE IF p1 >= Len(s) THEN [err |-> "read_length", frame |-> <<>>, pos |-> p1]
    ELSE
    LET length == s[p1 + 1]
        p2 == p1 + 1
    IN
    IF p2 >= Len(s) THEN [err |-> "read_second_start", frame |-> <<>>, pos |-> p2]
    ELSE
    LET startByte2 == s[p2 + 1]
        p3 == p2 + 1
        remainingBytes == RemainingBytes(length)
    IN
    IF startByte2 # StartFlag
    THEN [err |-> "second_start", frame |-> <<>>, pos |-> p3]
    ELSE IF Len(s) - p3 < remainingBytes
    THEN [err |-> "read_remaining", frame |-> <<>>, pos |-> Len(s)]
    ELSE [err |-> "none",
          frame |-> <<StartFlag, length, startByte2>>
                    \o SubSeq(s, p3 + 1, p3 + remainingBytes),
          pos |-> p3 + remainingBytes]

-----------------------------------------------------------------------------
(* types.BCDCodec *)

FromBCD(b) == HighNibble(b) * 10 + LowNibble(b)

\* ToBCD without the packing: the binary value itself
ToBCDBinary(n) == n
\* (n/10)<<4 | (n % 10) on a byte
ToBCD(n) == (((n \div 10) * 16) % 256) + (n % 10)

\* a uint32 is a pair of 16-bit halves, hi * 65536 + lo
U32(hi, lo) == [hi |-> hi, lo |-> lo]
\* n % 100
U32Mod100(n) == ((n.hi % 100) * 65536 + n.lo) % 100
\* n /= 100
U32Div100(n) ==
    U32(n.hi \div 100, ((n.hi % 100) * 65536 + n.lo) \div 100)
\* n*100 + uint32(d), wrapping at 2^32
U32Mul100Add(n, d) ==
    LET lo == n.lo * 100 + d
    IN  U32((n.hi * 100 + lo \div 65536) % 65536, lo % 65536)

RECURSIVE EncodeInt(_, _)
EncodeInt(n, bytes) ==
    IF bytes = 0 THEN <<>>
    ELSE EncodeInt(U32Div100(n), bytes - 1) \o <<ToBCD(U32Mod100(n))>>

RECURSIVE DecodeIntFrom(_, _, _)
DecodeIntFrom(bcd, i, n) ==
    IF i > Len(bcd) THEN n
    ELSE DecodeIntFrom(bcd, i + 1, U32Mul100Add(n, FromBCD(bcd[i])))

DecodeInt(bcd) == DecodeIntFrom(bcd, 1, U32(0, 0))

BCDIsValid(b) == HighNibble(b) <= 9 /\ LowNibble(b) <= 9

-----------------------------------------------------------------------------
(* types.Control *)

NewControl(value) == [value |-> value, divs |-> Nil]

IsDIV(c) == (c.value \div 64) % 2 = 1

\* c.value |= 0x40; c.divs = &count
SetDIV(c, count) ==
    [value |-> IF IsDIV(c) THEN c.value ELSE c.value + 64, divs |-> count]

\* TRUE for uplink, FALSE for downlink
DIR(c) == (c.value \div 128) % 2 = 1

\* c.value |= 0x80 or c.value &^= 0x80
SetDIR(c, up) ==
    [c EXCEPT !.value = IF up THEN (IF DIR(c) THEN @ ELSE @ + 128)
                        ELSE (IF DIR(c) THEN @ - 128 ELSE @)]

\* (c.value >> 4) & 0x03
FCB(c) == (c.value \div 16) % 4

\* c.value = (c.value & 0xCF) | ((fcb & 0x03) << 4)
SetFCB(c, fcb) ==
    [c EXCEPT !.value = (@ \div 64) * 64 + (fcb % 4) * 16 + (@ % 16)]

\* c.value & 0x0F
Code(c) == c.value % 16

\* c.value = (c.value & 0xF0) | (code & 0x0F)
SetCode(c, code) == [c EXCEPT !.value = (@ \div 16) * 16 + (code % 16)]

\* an encoding that leaves out the split count
ControlBytesOneByte(c) == <<c.value>>

ControlBytes(c) == IF c.divs # Nil THEN <<c.value, c.divs>> ELSE <<c.value>>

ControlLength(c) == IF c.divs # Nil THEN 2 ELSE 1

-----------------------------------------------------------------------------
(* types.Address *)

NoAddress == [format |-> 0, AdminCode |-> <<>>, StationID |-> 0, StationCode |-> <<>>]

AddressV1(adminCode, stationID) ==
    [format |-> 1, AdminCode |-> adminCode, StationID |-> stationID, StationCode |-> <<>>]

AddressV2(stationCode) ==
    [format |-> 2, AdminCode |-> <<>>, StationID |-> 0, StationCode |-> stationCode]

\* copy(dst, src) into a zeroed buffer of n bytes
CopyInto(n, src) == [i \in 1..n |-> IF i <= Len(src) THEN src[i] ELSE 0]

AddressV1Bytes(a) ==
    CopyInto(3, a.AdminCode) \o <<a.StationID \div 256, a.StationID % 256>>

AddressV2Bytes(a) == <<FeatureCode>> \o CopyInto(4, a.StationCode)

AddressBytes(a) == IF a.format = 1 THEN AddressV1Bytes(a) ELSE AddressV2Bytes(a)

AddressV1Validate(a) ==
    IF Len(a.AdminCode) # 3 THEN "admin_code_length"
    ELSE IF \E i \in 1..3 : ~BCDIsValid(a.AdminCode[i]) THEN "invalid_bcd"
    ELSE IF a.StationID = InvalidAddr THEN "invalid_station"
    ELSE IF a.StationID <= 65535 THEN "none"
    ELSE "station_out_of_range"

AddressV2Validate(a) ==
    IF Len(a.StationCode) # 4 THEN "station_code_length"
    ELSE IF \E i \in 1..4 :
              HighNibble(a.StationCode[i]) > 15 \/ LowNibble(a.StationCode[i]) > 15
    THEN "invalid_hex"
    ELSE "none"

AddressValidate(a) ==
    IF a.format = 1 THEN AddressV1Validate(a) ELSE AddressV2Validate(a)

NewAddressV1(adminCode, stationID) ==
    LET addr == AddressV1(CopyInto(3, adminCode), stationID)
    IN IF AddressV1Validate(addr) # "none"
       THEN [err |-> AddressV1Validate(addr), addr |-> NoAddress]
       ELSE [err |-> "none", addr |-> addr]

NewAddressV2(stationCode) ==
    LET addr == AddressV2(CopyInto(4, stationCode))
    IN IF AddressV2Validate(addr) # "none"
       THEN [err |-> AddressV2Validate(addr), addr |-> NoAddress]
       ELSE [err |-> "none", addr |-> addr]

ParseAddress(data) ==
    IF Len(data) # AddressLen THEN [err |-> "address_length", addr |-> NoAddress]
    ELSE IF data[1] = FeatureCode THEN NewAddressV2(SubSeq(data, 2, 5))
    ELSE NewAddressV1(SubSeq(data, 1, 3), data[4] * 256 + data[5])

\* the functional codes AFN.IsValid accepts: 0xC0, 0x81, 0x82, 0x83, 0x84
AFNIsValid(a) == a \in {192, 129, 130, 131, 132}

-----------------------------------------------------------------------------
(* types.TimeLabel *)

\* a nil *TimeLabel
NoTimeLabel ==
    [Second |-> Nil, Minute |-> Nil, Hour |-> Nil, Day |-> Nil, Month |-> Nil,
     Year |-> Nil, Timeout |-> Nil]

TimeLabelBytes(t) ==
    <<t.Second, t.Minute, t.Hour, t.Day, t.Month, t.Year, t.Timeout>>

ParseTimestamp(data) ==
    IF Len(data) # 7 THEN [err |-> "timestamp_length", tl |-> NoTimeLabel]
    ELSE [err |-> "none",
          tl |-> [Second |-> data[1], Minute |-> data[2], Hour |-> data[3],
                  Day |-> data[4], Month |-> data[5], Year |-> data[6],
                  Timeout |-> data[7]]]

isValidTimeLabel(data) ==
    /\ Len(data) = 7
    /\ BCDIsValid(data[1]) /\ FromBCD(data[1]) <= 59
    /\ BCDIsValid(data[2]) /\ FromBCD(data[2]) <= 59
    /\ BCDIsValid(data[3]) /\ FromBCD(data[3]) <= 23
    /\ BCDIsValid(data[4]) /\ FromBCD(data[4]) <= 31 /\ FromBCD(data[4]) # 0
    /\ BCDIsValid(data[5]) /\ FromBCD(data[5]) <= 12 /\ FromBCD(data[5]) # 0

-----------------------------------------------------------------------------
(* types.UserData *)

NoUserData ==
    [Control |-> NewControl(0), Address |-> NoAddress, AFN |-> 0, UserAFN |-> Nil,
     DataField |-> <<>>, PW |-> Nil, Tp |-> NoTimeLabel]

\* the last n bytes of s, and s without them
LastBytes(s, n) == SubSeq(s, Len(s) - n + 1, Len(s))
DropLast(s, n) == SubSeq(s, 1, Len(s) - n)

NewUserData(data) ==
    IF Len(data) < 7 THEN [err |-> "too_short", ud |-> NoUserData]
    ELSE
    LET first == NewControl(data[1]) IN
    IF IsDIV(first) /\ Len(data) < 8 THEN [err |-> "div_too_short", ud |-> NoUserData]
    ELSE
    LET ctrl == IF IsDIV(first) THEN SetDIV(first, data[2]) ELSE first
        offset == IF IsDIV(first) THEN 2 ELSE 1
        parsed == ParseAddress(SubSeq(data, offset + 1, offset + 5))
    IN
    IF parsed.err # "none" THEN [err |-> "address", ud |-> NoUserData]
    ELSE
    LET afn == data[offset + 6]
        offset2 == offset + 6
    IN
    IF afn = 255 /\ offset2 >= Len(data)
    THEN [err |-> "user_afn", ud |-> NoUserData]
    ELSE
    LET userAFN == IF afn = 255 THEN data[offset2 + 1] ELSE Nil
        offset3 == IF afn = 255 THEN offset2 + 1 ELSE offset2
        restData == SubSeq(data, offset3 + 1, Len(data))
        hasTp == /\ Len(restData) >= 7
                 /\ isValidTimeLabel(LastBytes(restData, 7))
                 /\ ParseTimestamp(LastBytes(restData, 7)).err = "none"
        tp == IF hasTp THEN ParseTimestamp(LastBytes(restData, 7)).tl ELSE NoTimeLabel
        rest2 == IF hasTp THEN DropLast(restData, 7) ELSE restData
        hasPW == ~DIR(ctrl) /\ Len(rest2) >= 2
        pw == IF hasPW THEN rest2[Len(rest2) - 1] ELSE Nil
        rest3 == IF hasPW THEN DropLast(rest2, 2) ELSE rest2
    IN [err |-> "none",
        ud |-> [Control |-> ctrl, Address |-> parsed.addr, AFN |-> afn,
                UserAFN |-> userAFN, DataField |-> rest3, PW |-> pw, Tp |-> tp]]


\* restData[:len(restData)-1], a trim that keeps the second password byte
TrimPasswordOneByte(restData) == DropLast(restData, 1)
\* restData = restData[:len(restData)-2]
TrimPassword(restData) == DropLast(restData, 2)

\* data[lo:hi] with 0-based bounds; what lies beyond the input is left out
SliceOf(data, lo, hi) ==
    SubSeq(data, lo + 1, IF hi <= Len(data) THEN hi ELSE Len(data))
\* data[i] with a 0-based index; Nil beyond the input
ByteAt(data, i) == IF i < Len(data) THEN data[i + 1] ELSE Nil

\* NewUserData again, recording the 0-based indices it reads (reads) and, on
\* success, the half-open index range [lo, hi) of the input each part was
\* taken from (pieces): control, address, functional codes, data field,
\* password, time label
NewUserDataTrace(data) ==
    LET n == Len(data)
        fail(e, reads) == [err |-> e, reads |-> reads, pieces |-> <<>>]
    IN
    IF n < 7 THEN fail("too_short", {})
    ELSE
    LET first == NewControl(ByteAt(data, 0)) IN
    IF IsDIV(first) /\ n < 8 THEN fail("div_too_short", {0})
    ELSE
    LET offset == IF IsDIV(first) THEN 2 ELSE 1
        r1 == IF IsDIV(first) THEN {0, 1} ELSE {0}
        parsed == ParseAddress(SliceOf(data, offset, offset + 5))
        r2 == r1 \cup (offset..(offset + 4))
    IN
    IF parsed.err # "none" THEN fail("address", r2)
    ELSE
    LET afn == ByteAt(data, offset + 5)
        r3 == r2 \cup {offset + 5}
        offset2 == offset + 6
    IN
    IF afn = 255 /\ offset2 >= n THEN fail("user_afn", r3)
    ELSE
    LET offset3 == IF afn = 255 THEN offset2 + 1 ELSE offset2
        r4 == IF afn = 255 THEN r3 \cup {offset2} ELSE r3
        restData == SliceOf(data, offset3, n)
        hasTp == /\ Len(restData) >= 7
                 /\ isValidTimeLabel(LastBytes(restData, 7))
                 /\ ParseTimestamp(LastBytes(restData, 7)).err = "none"
        tpLo == offset3 + Len(restData) - 7
        r5 == IF Len(restData) >= 7 THEN r4 \cup (tpLo..(tpLo + 6)) ELSE r4
        rest2 == IF hasTp THEN DropLast(restData, 7) ELSE restData
        hasPW == ~DIR(first) /\ Len(rest2) >= 2
        pwIndex == offset3 + Len(rest2) - 2
        r6 == IF hasPW THEN r5 \cup {pwIndex} ELSE r5
        rest3 == IF hasPW THEN TrimPassword(rest2) ELSE rest2
        dataHi == offset3 + Len(rest3)
    IN [err |-> "none",
        reads |-> r6,
        pieces |-> <<[lo |-> 0, hi |-> offset],
                     [lo |-> offset, hi |-> offset + 5],
                     [lo |-> offset + 5, hi |-> offset3],
                     [lo |-> offset3, hi |-> dataHi],
                     IF hasPW THEN [lo |-> pwIndex, hi |-> pwIndex + 2]
                     ELSE [lo |-> dataHi, hi |-> dataHi],
                     IF hasTp THEN [lo |-> tpLo, hi |-> tpLo + 7]
                     ELSE [lo |-> n, hi |-> n]>>]

\* the length Bytes computes before it allocates its buffer
UserDataLength(ud) ==
    ControlLength(ud.Control) + 5 + 1
        + (IF ud.UserAFN # Nil THEN 1 ELSE 0)
        + (IF ud.PW # Nil THEN 2 ELSE 0)
        + Len(ud.DataField)
        + (IF ud.Tp # NoTimeLabel THEN 7 ELSE 0)

UserDataBytes(ud) ==
    ControlBytes(ud.Control)
        \o AddressBytes(ud.Address)
        \o <<ud.AFN>>
        \o (IF ud.UserAFN # Nil THEN <<ud.UserAFN>> ELSE <<>>)
        \o ud.DataField
        \o (IF ud.PW # Nil THEN <<ud.PW>> ELSE <<>>)
        \o (IF ud.Tp # NoTimeLabel THEN TimeLabelBytes(ud.Tp) ELSE <<>>)

UserDataValidate(ud) ==
    IF AddressValidate(ud.Address) # "none" THEN "address"
    ELSE IF ~AFNIsValid(ud.AFN) THEN "afn"
    ELSE IF ud.AFN = 255 /\ ud.UserAFN = Nil THEN "user_afn"
    ELSE IF ~DIR(ud.Control) /\ ud.PW = Nil THEN "password"
    ELSE "none"

-----------------------------------------------------------------------------
(* station.Station *)

\* the two periodic tasks: heartbeatLoop and uploadLoop
Tasks == {"hb", "up"}

\* s.serialNum++ on a byte
NextSerial(n) == (n + 1) % 256

-----------------------------------------------------------------------------
(* transport.handlerImpl *)

\* packet.ParseUserData: types.NewUserData on the frame's user-data region
ParseUserData(frame) == NewUserData(frame.UserDataRaw)

\* the end of readPacket: the frame and error DecodePacket returned, once,
\* for the pos bytes read so far, and then ParseUserData on the frame
readDecoded(dec, pos) ==
    IF dec.err # "none"
    THEN [code |-> "invalid_data", cause |-> dec.err, pos |-> pos]
    ELSE IF ParseUserData(dec.frame).err # "none"
    THEN [code |-> "invalid_data", cause |-> "parse", pos |-> pos]
    ELSE [code |-> "none", cause |-> "packet", pos |-> pos]

\* one readPacket call on a reader that has consumed p bytes of s; the
\* stream fails (EOF or a broken connection) after its last byte.  code is
\* the ErrorCode of the wrapped error, cause the place it was raised.
readPacket(s, p) ==
    IF p >= Len(s)
    THEN [code |-> "connection_failed", cause |-> "read_start", pos |-> p]
    ELSE IF s[p + 1] # StartFlag
    THEN [code |-> "invalid_data", cause |-> "start_byte", pos |-> p + 1]
    ELSE IF p + 1 >= Len(s)
    THEN [code |-> "connection_failed", cause |-> "read_length", pos |-> p + 1]
    ELSE IF p + 2 >= Len(s)
    THEN [code |-> "connection_failed", cause |-> "read_second_start", pos |-> p + 2]
    ELSE IF s[p + 3] # StartFlag
    THEN [code |-> "invalid_data", cause |-> "second_start", pos |-> p + 3]
    ELSE
    LET length == s[p + 2]
        remainingBytes == length + 2
    IN
    IF Len(s) - (p + 3) < remainingBytes
    THEN [code |-> "connection_failed", cause |-> "read_remaining", pos |-> Len(s)]
    ELSE
    LET buf == SubSeq(s, p + 1, p + 3 + remainingBytes)
    IN CHOOSE r \in {readDecoded(dec, p + 3 + remainingBytes) :
                        dec \in {DecodePacket(buf)}} : TRUE

\* error values: nil, io.EOF, another error of the connection, and
\* sl427.WrapError(code, message, err), which allocates a new *Error
NilError == [Code |-> "nil", Cause |-> "nil"]
IoEOF == [Code |-> "io.EOF", Cause |-> "nil"]
ConnReset == [Code |-> "connection reset", Cause |-> "nil"]
ReadFailures == {IoEOF, ConnReset}
WrapError(code, err) == [Code |-> code, Cause |-> err.Code]

\* the error readPacket returns for the result r, when a read past the last
\* byte of the connection fails with fail
readPacketError(r, fail) ==
    IF r.code = "none" THEN NilError
    ELSE IF r.code = "connection_failed" THEN WrapError(r.code, fail)
    ELSE WrapError(r.code, NilError)

\* Handle, for an error it does not continue on:
\* if err != io.EOF { ... return err }; return nil
HandleReturn(err) == IF err # IoEOF THEN err ELSE NilError

\* a Handle that returns on every error
ContinueOnNothing(code) == FALSE

\* a Handle that continues on every error
ContinueOnEverything(code) == TRUE

\* Handle: sl427.IsErrorCode(err, sl427.ErrCodeInvalidData) -> continue
ContinueOn(code) == code = "invalid_data"

-----------------------------------------------------------------------------
(* main.Server *)

\* the connections of the server scenario, in the order Accept returns them
ConnIds == 1..MaxAccepts

\* getConnCount: the number of keys of s.conns
getConnCount(reg) == Cardinality({a \in DOMAIN reg : reg[a] # Nil})

\* the connections a worker goroutine is running Handle for
Serving(st) == {c \in DOMAIN st : st[c] = "serving"}

-----------------------------------------------------------------------------
(* packet.Packet *)

\* binary.BigEndian for uint16 and uint32
Uint16LittleEndian(hi, lo) == lo * 256 + hi
Uint16(hi, lo) == hi * 256 + lo
PutUint16(v) == <<(v \div 256) % 256, v % 256>>
Uint32(b) == b[1] * 16777216 + b[2] * 65536 + b[3] * 256 + b[4]
PutUint32(v) ==
    <<(v \div 16777216) % 256, (v \div 65536) % 256, (v \div 256) % 256,
      v % 256>>

\* sum += uint16(b) over data[lo..hi], a uint16 accumulator
RECURSIVE SumBytes(_, _, _)
SumBytes(data, lo, hi) ==
    IF lo > hi THEN 0
    ELSE IF lo = hi THEN data[lo]
    ELSE LET mid == (lo + hi) \div 2
             left == SumBytes(data, lo, mid)
         IN  IF left >= 0
             THEN (left + SumBytes(data, mid + 1, hi)) % 65536
             ELSE 0

NoPacket ==
    [Header |-> [StartFlag |-> 0, Address |-> 0, Command |-> 0,
                 Length |-> 0, SerialNum |-> 0],
     Data |-> <<>>, CRC |-> 0]

CalculateChecksum(p) ==
    LET data == <<p.Header.StartFlag>> \o PutUint32(p.Header.Address)
                \o <<p.Header.Command>> \o PutUint16(p.Header.Length)
                \o <<p.Header.SerialNum>> \o p.Data
    IN  SumBytes(data, 1, Len(data))

NewPacket(addr32, command, data) ==
    LET dataLen == Len(data)
        totalLen == HeaderLen + dataLen + ChecksumLen + EndFlagLen
        p == [Header |-> [StartFlag |-> StartFlag, Address |-> addr32,
                          Command |-> command, Length |-> totalLen % 65536,
                          SerialNum |-> 0],
              Data |-> data, CRC |-> 0]
    IN  IF dataLen > MaxPacketLen - MinPacketLen
        THEN [err |-> "data_too_long", p |-> NoPacket]
        ELSE [err |-> "none", p |-> [p EXCEPT !.CRC = CalculateChecksum(p)]]

\* Bytes() stores the checksum it computes in p.CRC
PacketAfterBytes(p) == [p EXCEPT !.CRC = CalculateChecksum(p)]

PacketBytes(p) ==
    LET totalLen == HeaderLen + Len(p.Data) + ChecksumLen + EndFlagLen
    IN  <<p.Header.StartFlag>> \o PutUint32(p.Header.Address)
        \o <<p.Header.Command>> \o PutUint16(totalLen % 65536)
        \o <<p.Header.SerialNum>> \o p.Data
        \o PutUint16(CalculateChecksum(p)) \o <<EndFlag>>

Parse(data) ==
    LET n == Len(data)
        fail(e) == [err |-> e, p |-> NoPacket]
    IN  IF n < MinPacketLen THEN fail("too_short")
        ELSE IF data[1] # StartFlag THEN fail("start_flag")
        ELSE LET header == [StartFlag |-> data[1],
                            Address |-> Uint32(SubSeq(data, 2, 5)),
                            Command |-> data[6],
                            Length |-> Uint16(data[7], data[8]),
                            SerialNum |-> data[9]]
                 dataLen == n - MinPacketLen
                 packetData == SubSeq(data, HeaderLen + 1, HeaderLen + dataLen)
                 crc == Uint16(data[n - 2], data[n - 1])
                 packet == [Header |-> header, Data |-> packetData,
                            CRC |-> crc]
             IN  IF header.Length # n % 65536 THEN fail("length")
                 ELSE IF data[n] # EndFlag THEN fail("end_flag")
                 ELSE IF CalculateChecksum(packet) # crc
                      THEN fail("checksum")
                      ELSE [err |-> "none", p |-> packet]


-----------------------------------------------------------------------------
(* protocol.ParseUploadData *)

\* the length of the layout "060102150405"
TimestampLen == 12
TypeInt8 == 1
TypeInt16 == 2
TypeInt32 == 3
TypeString == 4

NoTimeStamp ==
    [Year |-> 0, Month |-> 0, Day |-> 0, Hour |-> 0, Minute |-> 0,
     Second |-> 0]

\* two ASCII digits at data[i], data[i+1], or Nil
TwoDigits(data, i) ==
    IF data[i] \in 48..57 /\ data[i + 1] \in 48..57
    THEN (data[i] - 48) * 10 + (data[i + 1] - 48)
    ELSE Nil

\* the year time.Parse gives a two-digit year
FullYear(yy) == IF yy >= 69 THEN 1900 + yy ELSE 2000 + yy

DaysIn(month, year) ==
    IF month = 2
    THEN IF year % 4 = 0 /\ (year % 100 # 0 \/ year % 400 = 0) THEN 29 ELSE 28
    ELSE IF month \in {4, 6, 9, 11} THEN 30 ELSE 31

\* time.ParseInLocation("060102150405", ...)
ParseTimeStamp(data) ==
    IF Len(data) < TimestampLen
    THEN [err |-> "invalid_length", t |-> NoTimeStamp]
    ELSE LET yy == TwoDigits(data, 1)
             mo == TwoDigits(data, 3)
             dd == TwoDigits(data, 5)
             hh == TwoDigits(data, 7)
             mi == TwoDigits(data, 9)
             ss == TwoDigits(data, 11)
         IN  IF /\ yy # Nil
                /\ mo # Nil /\ mo \in 1..12
                /\ dd # Nil /\ dd >= 1 /\ dd <= DaysIn(mo, FullYear(yy))
                /\ hh # Nil /\ hh <= 23
                /\ mi # Nil /\ mi <= 59
                /\ ss # Nil /\ ss <= 59
             THEN [err |-> "none",
                   t |-> [Year |-> FullYear(yy), Month |-> mo, Day |-> dd,
                          Hour |-> hh, Minute |-> mi, Second |-> ss]]
             ELSE [err |-> "invalid_format", t |-> NoTimeStamp]

\* TimeStamp.Bytes(): Format("060102150405")
TimeStampBytes(t) ==
    LET d2(v) == <<48 + ((v \div 10) % 10), 48 + (v % 10)>>
    IN  d2(t.Year % 100) \o d2(t.Month) \o d2(t.Day) \o d2(t.Hour)
        \o d2(t.Minute) \o d2(t.Second)

\* int8(b), int16(...), int32(...) of big-endian bytes
Int8Of(b) == IF b >= 128 THEN b - 256 ELSE b
Int16Of(hi, lo) == Int8Of(hi) * 256 + lo
Int32Of(b1, b2, b3, b4) == Int8Of(b1) * 16777216 + b2 * 65536 + b3 * 256 + b4

NoUploadData == [Timestamp |-> NoTimeStamp, Items |-> <<>>]

\* the loop of ParseUploadData; offset counts the bytes consumed
RECURSIVE ParseItems(_, _, _, _, _)
ParseItems(data, itemCount, i, offset, items) ==
    LET n == Len(data)
        fail(e) == [err |-> e, items |-> <<>>]
    IN  IF ~(i < itemCount /\ offset < n)
        THEN [err |-> "none", items |-> items]
        ELSE IF offset + 3 > n THEN fail("invalid_data")
        ELSE LET id == Uint16(data[offset + 1], data[offset + 2])
                 dataType == data[offset + 3]
                 off == offset + 3
                 next(value, used) ==
                     ParseItems(data, itemCount, i + 1, off + used,
                                Append(items, [ID |-> id, Type |-> dataType,
                                               Value |-> value]))
             IN  IF dataType = TypeInt8
                 THEN IF off + 1 > n THEN fail("invalid_data")
                      ELSE next(Int8Of(data[off + 1]), 1)
                 ELSE IF dataType = TypeInt16
                 THEN IF off + 2 > n THEN fail("invalid_data")
                      ELSE next(Int16Of(data[off + 1], data[off + 2]), 2)
                 ELSE IF dataType = TypeInt32
                 THEN IF off + 4 > n THEN fail("invalid_data")
                      ELSE next(Int32Of(data[off + 1], data[off + 2],
                                        data[off + 3], data[off + 4]), 4)
                 ELSE IF dataType = TypeString
                 THEN IF off >= n THEN fail("invalid_data")
                      ELSE LET strLen == data[off + 1]
                           IN  IF off + 1 + strLen > n
                               THEN fail("invalid_data")
                               ELSE next(SubSeq(data, off + 2,
                                                off + 1 + strLen),
                                         1 + strLen)
                 ELSE fail("invalid_type")

ParseUploadData(data) ==
    IF Len(data) < TimestampLen + 1
    THEN [err |-> "invalid_length", data |-> NoUploadData]
    ELSE LET timestamp == ParseTimeStamp(SubSeq(data, 1, TimestampLen))
         IN  IF timestamp.err # "none"
             THEN [err |-> "invalid_format", data |-> NoUploadData]
             ELSE LET r == ParseItems(data, data[TimestampLen + 1], 0,
                                      TimestampLen + 1, <<>>)
                  IN  IF r.err # "none"
                      THEN [err |-> r.err, data |-> NoUploadData]
                      ELSE [err |-> "none",
                            data |-> [Timestamp |-> timestamp.t,
                                      Items |-> r.items]]

\* the bytes EncodeUploadData writes for one item
ItemBytes(item) ==
    PutUint16(item.ID) \o <<item.Type>>
    \o (IF item.Type = TypeInt8 THEN <<item.Value % 256>>
        ELSE IF item.Type = TypeInt16 THEN PutUint16(item.Value % 65536)
        ELSE IF item.Type = TypeInt32 THEN PutUint32(item.Value)
        ELSE <<Len(item.Value)>> \o item.Value)

RECURSIVE ItemsBytes(_)
ItemsBytes(items) ==
    IF items = <<>> THEN <<>>
    ELSE ItemBytes(Head(items)) \o ItemsBytes(Tail(items))


-----------------------------------------------------------------------------
(* types.ParseUploadData and its parse functions *)

DataTypeRain == 1
DataTypeWaterLevel == 2

\* outcome is "ok", "error" or "panic" (index out of range); read is the
\* number of leading bytes of the data field the call has indexed
NoUploadFrame ==
    [RawData |-> <<>>, Items |-> <<>>, Status |-> [Alarm |-> 0, State |-> 0]]

\* parseRain: "YL" in tenths
parseRain(data) ==
    IF Len(data) # 3 THEN [err |-> "length", items |-> <<>>, read |-> 0]
    ELSE LET value == DecodeInt(data)
         IN  [err |-> "none",
              items |-> <<[key |-> "YL", num |-> value.hi * 65536 + value.lo,
                           den |-> 10]>>,
              read |-> 3]

\* one water level, in thousandths
WaterLevel(levelData) ==
    LET negative == HighNibble(levelData[4]) = 15
        value == FromBCD(LowNibble(levelData[1]))
                 + FromBCD(HighNibble(levelData[1])) * 10
                 + FromBCD(LowNibble(levelData[2])) * 100
                 + FromBCD(HighNibble(levelData[2])) * 1000
                 + FromBCD(LowNibble(levelData[3])) * 10000
                 + FromBCD(HighNibble(levelData[3])) * 100000
                 + FromBCD(LowNibble(levelData[4])) * 1000000
    IN  IF negative THEN 0 - value ELSE value

\* parseWaterLevel: "SW", "SW2", ... in thousandths
parseWaterLevel(data) ==
    IF Len(data) < 4 \/ Len(data) % 4 # 0
    THEN [err |-> "length", items |-> <<>>, read |-> 0]
    ELSE LET count == Len(data) \div 4
         IN  [err |-> "none",
              items |-> [i \in 1..count |->
                            [key |-> IF i = 1 THEN "SW" ELSE "SWn",
                             num |-> WaterLevel(SubSeq(data, 4 * i - 3, 4 * i)),
                             den |-> 1000]],
              read |-> 4 * count]

TypesParseUploadData(dataType, dataField) ==
    LET fail(o, n) == [outcome |-> o, frame |-> NoUploadFrame, read |-> n]
    IN  IF dataType \notin {DataTypeRain, DataTypeWaterLevel}
        THEN fail("error", 0)
        ELSE LET r == IF dataType = DataTypeRain THEN parseRain(dataField)
                      ELSE parseWaterLevel(dataField)
             IN  IF r.err # "none" THEN fail("error", r.read)
                 \* dataField[0] .. dataField[3]
                 ELSE IF Len(dataField) < 4
                 THEN fail("panic", 4)
                 ELSE [outcome |-> "ok",
                       frame |-> [RawData |-> dataField, Items |-> r.items,
                                  Status |->
                                      [Alarm |-> dataField[1] * 256 + dataField[2],
                                       State |-> dataField[3] * 256 + dataField[4]]],
                       read |-> IF r.read > 4 THEN r.read ELSE 4]

-----------------------------------------------------------------------------
(* Inputs of the scenarios *)

\* bytes that user-data regions are drawn from: 0x00, 0x16, 0x68, 0x80
RegionBytes == {0, EndFlag, StartFlag, 128}

\* control 0x80, address 01 02 03 04 05, functional code 0xC0, data 0x01
VectorRegion == <<128, 1, 2, 3, 4, 5, 192, 1>>

\* the regions of the codec scenario: every short one, the literal vector,
\* and one at and one past the largest length a frame can declare
CodecRegions ==
    SeqsUpTo(RegionBytes, MaxRegionLen)
        \cup {VectorRegion, Fill(1, MaxFrameLen), Fill(1, MaxFrameLen + 1)}

\* the userData values of the codec test: every short one and the test's own
TestDatas == SeqsUpTo(RegionBytes, MaxTestDataLen) \cup {VectorRegion}

\* values a damaged end marker may take
BadEndBytes == {0, StartFlag, 23}

\* the wire bytes of the valid frame that carries region r
FrameBytes(r) == EncodePacket(NewFrame(r)).bytes

\* noise: bytes other than the start flag
NoiseBytes == {0, EndFlag}
\* n bytes of noise that begin with b and alternate between 0x00 and 0x16
AlternatingNoise(b, n) == [i \in 1..n |-> IF i % 2 = 1 THEN b ELSE EndFlag - b]
NoiseSeqs == {AlternatingNoise(b, n) : b \in NoiseBytes, n \in 0..MaxNoise}
ReaderRegions == {<<StartFlag>>, <<1, StartFlag>>}
Segments == [noise : NoiseSeqs, region : ReaderRegions]

RECURSIVE SegmentSeqs(_)
SegmentSeqs(n) ==
    IF n = 0 THEN {<<>>}
    ELSE LET shorter == SegmentSeqs(n - 1)
         IN shorter \cup {Append(ss, g) : ss \in shorter, g \in Segments}

RECURSIVE StreamOf(_)
\* the stream made of the segments: each frame after its noise
StreamOf(ss) ==
    IF ss = <<>> THEN <<>>
    ELSE ss[1].noise \o FrameBytes(ss[1].region) \o StreamOf(Tail(ss))

\* unstructured streams: 0x68, a zero length, a length of 1
RawBytes == {StartFlag, 0, 1}

\* the control fields of the user-data scenario: uplink, downlink, split
\* uplink and downlink with a count, and 0x40 fresh from NewControl
Controls ==
    {NewControl(128), NewControl(0), SetDIV(NewControl(128), 5),
     SetDIV(NewControl(0), 2), NewControl(64)}

\* admin code 21 05 25 with station 1234 and with station 0, admin code
\* 00 05 25, and the station code 80 00 00 01
Addresses ==
    {AddressV1(<<33, 5, 37>>, 1234), AddressV1(<<33, 5, 37>>, 0),
     AddressV1(<<0, 5, 37>>, 1234), AddressV2(<<128, 0, 0, 1>>)}

\* upload, user-defined, and a code outside the set
AFNs == {192, 255, 0}
UserAFNs == {Nil, 7}
Passwords == {Nil, 18}

\* 30 s, 59 min, 23 h, day 31, month 12, year 24, timeout 5
SampleTimeLabel ==
    [Second |-> 48, Minute |-> 89, Hour |-> 35, Day |-> 49, Month |-> 18,
     Year |-> 36, Timeout |-> 5]
TimeLabels == {NoTimeLabel, SampleTimeLabel}

\* data fields: every short one, and one whose bytes read as a calendar time
DataBytes == {1, 89}
DataFields ==
    SeqsUpTo(DataBytes, MaxDataLen) \cup {<<1, 2, 3, 4, 5, 6, 7>>}

UserDatas ==
    [Control : Controls, Address : Addresses, AFN : AFNs, UserAFN : UserAFNs,
     DataField : DataFields, PW : Passwords, Tp : TimeLabels]

\* admin-code bytes: 0x00, 0x05, 0x21 and 0x9A, which is not BCD
AdminBytes == {0, 5, 33, 154}
\* admin codes: every one of 3 bytes, and one that is too short
AdminCodes == {c \in SeqsUpTo(AdminBytes, 3) : Len(c) = 3} \cup {<<33, 5>>}
\* the invalid address 0, a monitoring station, 0x04D2, a relay station and
\* the broadcast address
StationIDs == {0, 1, 1234, 60001, 65535}
StationCodeBytes == {0, 128, 255}
StationCodes == {c \in SeqsUpTo(StationCodeBytes, 4) : Len(c) = 4}
\* arguments of the Control setters: a split count, a frame count and a
\* code, each with a value wider than its field
SplitCounts == {0, 5}
FrameCounts == {0, 3, 6}
CommandCodes == {0, 9, 31}

\* uplink control 0x80, admin code 21 05 25, station 0x04D2, code 0xC0
HeartbeatRegion == <<128, 33, 5, 37, 4, 210, 192>>
\* the same with station address 0, which ParseAddress rejects
BadAddressRegion == <<128, 33, 5, 37, 0, 0, 192>>

\* the chunks of a handler stream: a stray byte, a lone start marker, a
\* start marker followed by a bad second marker, a valid frame, one with a
\* damaged checksum, one with a damaged end marker, one whose user data
\* cannot be parsed, and the first five bytes of a frame
Chunks ==
    LET valid == FrameBytes(HeartbeatRegion)
    IN {<<0>>, <<StartFlag>>, <<StartFlag, 7, 0>>, valid,
        [valid EXCEPT ![Len(valid) - 1] = Xor(@, 1)],
        [valid EXCEPT ![Len(valid)] = 0],
        FrameBytes(BadAddressRegion),
        SubSeq(valid, 1, 5)}

RECURSIVE ChunkStreams(_)
ChunkStreams(n) ==
    IF n = 0 THEN {<<>>}
    ELSE LET shorter == ChunkStreams(n - 1)
         IN shorter \cup {t \o c : t \in shorter, c \in Chunks}

\* heartbeat-type frames: an uplink control (0x80, 0x95, or 0xC0 with a
\* split count of 3), a BCD admin code, a station address other than 0, the
\* functional code 0xC0 and no data field
UplinkControlBytes == {<<128>>, <<149>>, <<192, 3>>}
HeartbeatFrames ==
    {FrameBytes(c \o ac \o <<id \div 256, id % 256>> \o <<192>>) :
        c \in UplinkControlBytes,
        ac \in {x \in AdminCodes : Len(x) = 3 /\ \A i \in 1..3 : BCDIsValid(x[i])},
        id \in StationIDs \ {0}}

\* remote addresses (ip:port) a connection can come from
RemoteAddrs == 1..(MaxConns + 1)

AddressInputs ==
    {AddressV1(c, id) : c \in AdminCodes, id \in StationIDs}
        \cup {AddressV2(c) : c \in StationCodes}

\* the arguments of NewPacket and the serial number set afterwards
\* 0, 0x12345678 and 0x7FFFFFFF (the model's integers end at 2^31 - 1)
PacketAddresses == {0, 305419896, 2147483647}
PacketCommands == {2, 3}
PacketSerials == {0, 1, 255}
\* "241025223213", the data of the heartbeat in TestPacket_RealWorldExamples
HeartbeatData == <<50, 52, 49, 48, 50, 53, 50, 50, 51, 50, 49, 51>>
PacketDatas ==
    {<<>>, <<1>>, <<255, 255>>, HeartbeatData, Fill(255, 300),
     Fill(0, MaxPacketLen - MinPacketLen),
     Fill(0, MaxPacketLen - MinPacketLen + 1)}
PacketArgs ==
    [address : PacketAddresses, command : PacketCommands,
     data : PacketDatas, serial : PacketSerials]
NoPacketArgs == [address |-> 0, command |-> 0, data |-> <<>>, serial |-> 0]
\* HeartbeatPacket of TestPacket_RealWorldExamples
HeartbeatPacket ==
    <<104, 18, 52, 86, 120, 3, 0, 24, 2>> \o HeartbeatData \o <<3, 244, 22>>
\* byte sequences handed to Parse: the heartbeat, damaged copies of it, and
\* the smallest packets
RawPackets ==
    {HeartbeatPacket,
     [HeartbeatPacket EXCEPT ![1] = 0],
     [HeartbeatPacket EXCEPT ![8] = 25],
     [HeartbeatPacket EXCEPT ![10] = 51],
     [HeartbeatPacket EXCEPT ![23] = 245],
     [HeartbeatPacket EXCEPT ![24] = 0],
     SubSeq(HeartbeatPacket, 1, 11),
     <<>>}
    \cup {<<104, 0, 0, 0, a, c, 0, 12, s>>
          \o PutUint16((104 + a + c + 12 + s) % 65536) \o <<EndFlag>> :
          a \in {0, 255}, c \in {0, 2}, s \in {0, 7, 255}}


\* the integers handed to EncodeInt: 0, the powers of 100 and their
\* predecessors, 0x7FFFFFFF, 0x80000000 and 0xFFFFFFFF
Uint32s ==
    {U32(0, 0), U32(0, 1), U32(0, 9), U32(0, 10), U32(0, 99), U32(0, 100),
     U32(0, 1234), U32(0, 9999), U32(0, 10000), U32(0, 65535), U32(1, 0),
     U32(15, 16959), U32(15, 16960), U32(1525, 57599), U32(1525, 57600),
     U32(32767, 65535), U32(32768, 0), U32(65535, 65535)}
ByteCounts == 1..MaxByteCount


\* "210525152500", the timestamp of TestParseUploadData, and a month 13
UploadTimestamps ==
    {<<50, 49, 48, 53, 50, 53, 49, 53, 50, 53, 48, 48>>,
     <<50, 49, 49, 51, 50, 53, 49, 53, 50, 53, 48, 48>>}
\* the item of TestParseUploadData and one item of each other type
UploadItems ==
    {[ID |-> 1001, Type |-> TypeInt32, Value |-> 12345],
     [ID |-> 1, Type |-> TypeInt8, Value |-> -1],
     [ID |-> 65535, Type |-> TypeInt16, Value |-> -32768],
     [ID |-> 2, Type |-> TypeString, Value |-> <<97, 98>>],
     [ID |-> 3, Type |-> TypeString, Value |-> <<>>]}
UploadItemSeqs == SeqsUpTo(UploadItems, MaxItems)
\* the count byte, the items that follow it and the bytes cut off the end
UploadSources ==
    [timestamp : UploadTimestamps, count : 0..(MaxItems + 1),
     items : UploadItemSeqs, cut : 0..2]
NoUploadSource ==
    [timestamp |-> <<>>, count |-> 0, items |-> <<>>, cut |-> 0]
UploadBytes(src) ==
    LET all == src.timestamp \o <<src.count>> \o ItemsBytes(src.items)
    IN  SubSeq(all, 1, Len(all) - src.cut)


\* data fields of a self-report frame: 0x00, 0x12, 0x99 and 0xF9 (not BCD)
FieldBytes == {0, 18, 153, 249}
UploadFields ==
    SeqsUpTo(FieldBytes, MaxFieldLen)
    \cup {f \o g : f \in {<<18, 153, 0, 0>>, <<0, 0, 0, 240>>},
                   g \in {<<153, 153, 153, 9>>, <<1, 0, 0, 0>>}}
UploadTypes == {DataTypeRain, DataTypeWaterLevel, 3}


\* byte sequences handed to NewUserData: every prefix of a control (downlink,
\* uplink, split with and without its count), an address (format 1, format
\* 2, station address 0), a functional code (0xC0, 0xFF alone, 0xFF and a
\* user code) and a rest (short data, with and without a time label)
RawControls == {<<0>>, <<128>>, <<64, 3>>, <<192, 3>>, <<64>>}
RawAddresses == {<<33, 5, 37, 4, 210>>, <<0, 128, 0, 0, 1>>, <<33, 5, 37, 0, 0>>}
RawAFNs == {<<192>>, <<255>>, <<255, 7>>}
RawRests ==
    LET short == SeqsUpTo({1, 89}, MaxRestLen)
    IN  short \cup {r \o TimeLabelBytes(SampleTimeLabel) : r \in short}
RawUserDatas ==
    LET whole == {c \o a \o f \o r : c \in RawControls, a \in RawAddresses,
                                     f \in RawAFNs, r \in RawRests}
    IN  UNION {{SubSeq(w, 1, k) : k \in 0..Len(w)} : w \in whole}


\* the connection workers that share one Metrics, and the commands of the
\* packets they handle: CmdUpload, CmdHeartbeat and an unknown one
Workers == 1..MaxWorkers
CmdUpload == 2
CmdHeartbeat == 3
PacketCommandsHandled == {CmdUpload, CmdHeartbeat, 9}

-----------------------------------------------------------------------------
(* State of a scenario that is not running *)

NoCorruption == [kind |-> "none", arg |-> 0]
NoEncoded == [err |-> "pending", bytes |-> <<>>]
NoDecoded == [err |-> "pending", frame |-> NoFrame]

CodecIdle ==
    /\ cpc = "idle" /\ region = <<>> /\ encoded = NoEncoded
    /\ corruption = NoCorruption /\ wire = <<>> /\ decoded = NoDecoded

ReaderIdle ==
    /\ rpc = "idle" /\ structured = FALSE /\ segs = <<>> /\ stream = <<>>
    /\ rpos = 0 /\ calls = <<>>

NoParsed == [err |-> "pending", ud |-> NoUserData]

UserIdle ==
    /\ upc = "idle" /\ u = NoUserData /\ uvalid = "pending" /\ ubytes = <<>>
    /\ udec = NoParsed

NoParsedAddress == [err |-> "pending", addr |-> NoAddress]

AddrIdle ==
    /\ apc = "idle" /\ address = NoAddress /\ avalid = "pending" /\ abytes = <<>>
    /\ aparsed = NoParsedAddress

CtrlIdle == kpc = "idle" /\ ctl = NewControl(0) /\ ksteps = 0

TestIdle ==
    tpc = "idle" /\ tdata = <<>> /\ tpacket = <<>> /\ tresult = NoDecoded

StationIdle ==
    /\ startpc = "idle" /\ stoppc = "idle" /\ running = FALSE
    /\ stopCh = "open" /\ conn = "nil" /\ mu = "free" /\ serialNum = 0
    /\ task = [t \in Tasks |-> "none"]
    /\ lastSerial = Nil /\ maxEarlier = Nil

ServerIdle ==
    /\ looppc = "idle" /\ cancelled = FALSE
    /\ registry = [a \in RemoteAddrs |-> Nil]
    /\ cstate = [c \in ConnIds |-> "none"]
    /\ raddr = [c \in ConnIds |-> Nil]
    /\ cur = Nil

HandlerIdle ==
    /\ hpc = "idle" /\ hstream = <<>> /\ hpos = 0 /\ hevents = <<>>
    /\ hclosed = FALSE /\ hfail = NilError /\ hret = NilError

EchoIdle ==
    /\ epc = "idle" /\ eframe = <<>> /\ edec = NoDecoded /\ eud = NoParsed
    /\ eregion = <<>> /\ eout = NoEncoded


NoParsedPacket == [err |-> "none", p |-> NoPacket]

PacketIdle ==
    /\ ppc = "idle" /\ pmode = "none" /\ pargs = NoPacketArgs
    /\ pkt = NoPacket /\ pbytes = <<>> /\ pparsed = NoParsedPacket
    /\ preenc = <<>>


BcdIdle ==
    /\ bpc = "idle" /\ bmode = "none" /\ bn = U32(0, 0) /\ bk = 0
    /\ benc = <<>> /\ bdec = U32(0, 0)


NoParsedUpload == [err |-> "none", data |-> NoUploadData]

UploadIdle ==
    /\ pupc = "idle" /\ pusrc = NoUploadSource /\ pudata = <<>>
    /\ puresult = NoParsedUpload


NoUploadResult == [outcome |-> "none", frame |-> NoUploadFrame, read |-> 0]

MeasureIdle ==
    /\ mpc = "idle" /\ mtype = 0 /\ mfield = <<>> /\ mresult = NoUploadResult


NoTrace == [err |-> "none", reads |-> {}, pieces |-> <<>>]

RawIdle ==
    /\ wpc = "idle" /\ wdata = <<>> /\ wud = NoParsed /\ wtrace = NoTrace


MetricsIdle ==
    /\ wkpc = [w \in Workers |-> "idle"]
    /\ wkcmd = [w \in Workers |-> 0]
    /\ PacketsReceived = 0 /\ PacketsSent = 0 /\ PacketsDropped = 0
    /\ ProcessingLatency = 0
    /\ handled = -1 /\ completed = 0


LifecycleIdle ==
    /\ lpc = "idle" /\ lrunning = FALSE /\ lconn = "nil" /\ lcloses = 0
    /\ lloops = 0 /\ lhist = <<>>

-----------------------------------------------------------------------------
(* Codec scenario: encode a region, possibly damage the frame, decode it *)

InitCodecVars ==
    /\ cpc = "start"
    /\ region \in CodecRegions
    /\ encoded = NoEncoded
    /\ corruption = NoCorruption
    /\ wire = <<>>
    /\ decoded = NoDecoded

Encode ==
    /\ cpc = "start"
    /\ encoded' = EncodePacket(NewFrame(region))
    /\ wire' = encoded'.bytes
    /\ cpc' = "encoded"
    /\ UNCHANGED <<region, corruption, decoded>>
    /\ UNCHANGED nonCodecVars

\* the channel flips bit k of the checksum byte
FlipChecksumBit ==
    /\ cpc = "encoded"
    /\ \E k \in 0..7 :
         /\ wire' = [wire EXCEPT ![Len(wire) - 1] = Xor(@, 2^k)]
         /\ corruption' = [kind |-> "cs", arg |-> k]
    /\ cpc' = "corrupted"
    /\ UNCHANGED <<region, encoded, decoded>>
    /\ UNCHANGED nonCodecVars

\* the channel flips bit k of byte i of the user-data region (one of its
\* first MaxFlipBytes bytes)
FlipRegionBit ==
    /\ cpc = "encoded"
    /\ \E i \in 1..Len(region), k \in 0..7 :
         /\ i <= MaxFlipBytes
         /\ 3 + i <= Len(wire)
         /\ wire' = [wire EXCEPT ![3 + i] = Xor(@, 2^k)]
         /\ corruption' = [kind |-> "region", arg |-> 8 * (i - 1) + k]
    /\ cpc' = "corrupted"
    /\ UNCHANGED <<region, encoded, decoded>>
    /\ UNCHANGED nonCodecVars

\* the channel replaces the end marker
ChangeEndMarker ==
    /\ cpc = "encoded"
    /\ \E v \in BadEndBytes :
         /\ wire' = [wire EXCEPT ![Len(wire)] = v]
         /\ corruption' = [kind |-> "end", arg |-> v]
    /\ cpc' = "corrupted"
    /\ UNCHANGED <<region, encoded, decoded>>
    /\ UNCHANGED nonCodecVars

Decode ==
    /\ cpc \in {"encoded", "corrupted"}
    /\ decoded' = DecodePacket(wire)
    /\ cpc' = "decoded"
    /\ UNCHANGED <<region, encoded, corruption, wire>>
    /\ UNCHANGED nonCodecVars

NextCodec ==
    \/ Encode
    \/ FlipChecksumBit
    \/ FlipRegionBit
    \/ ChangeEndMarker
    \/ Decode

-----------------------------------------------------------------------------
(* Reader scenario: successive ReadFrame calls on one Reader *)

InitReaderVars ==
    /\ rpc = "reading"
    /\ \/ /\ structured = TRUE
          /\ segs \in SegmentSeqs(MaxFrames)
          /\ stream = StreamOf(segs)
       \/ /\ structured = FALSE
          /\ segs = <<>>
          /\ stream \in SeqsUpTo(RawBytes, MaxStreamLen)
    /\ rpos = 0
    /\ calls = <<>>

ReadFrameCall ==
    /\ rpc = "reading"
    /\ Len(calls) < MaxCalls
    /\ LET r == ReadFrame(stream, rpos)
       IN /\ calls' = Append(calls, [start |-> rpos, err |-> r.err,
                                     frame |-> r.frame, end |-> r.pos])
          /\ rpos' = r.pos
    /\ UNCHANGED <<rpc, structured, segs, stream>>
    /\ UNCHANGED nonReaderVars

NextReader == ReadFrameCall

-----------------------------------------------------------------------------
(* User-data scenario: validate a UserData, encode it, decode the bytes *)

InitUserVars ==
    /\ upc = "new"
    /\ u \in UserDatas
    /\ uvalid = "pending"
    /\ ubytes = <<>>
    /\ udec = NoParsed

ValidateCall ==
    /\ upc = "new"
    /\ uvalid' = UserDataValidate(u)
    /\ upc' = "validated"
    /\ UNCHANGED <<u, ubytes, udec>>
    /\ UNCHANGED nonUserVars

BytesCall ==
    /\ upc = "validated"
    /\ ubytes' = UserDataBytes(u)
    /\ upc' = "encoded"
    /\ UNCHANGED <<u, uvalid, udec>>
    /\ UNCHANGED nonUserVars

NewUserDataCall ==
    /\ upc = "encoded"
    /\ udec' = NewUserData(ubytes)
    /\ upc' = "decoded"
    /\ UNCHANGED <<u, uvalid, ubytes>>
    /\ UNCHANGED nonUserVars

NextUser == ValidateCall \/ BytesCall \/ NewUserDataCall

-----------------------------------------------------------------------------
(* Address scenario: validate an address, encode it, parse the bytes *)

InitAddrVars ==
    /\ apc = "new"
    /\ address \in AddressInputs
    /\ avalid = "pending"
    /\ abytes = <<>>
    /\ aparsed = NoParsedAddress

AddressValidateCall ==
    /\ apc = "new"
    /\ avalid' = AddressValidate(address)
    /\ apc' = "validated"
    /\ UNCHANGED <<address, abytes, aparsed>>
    /\ UNCHANGED nonAddrVars

AddressBytesCall ==
    /\ apc = "validated"
    /\ abytes' = AddressBytes(address)
    /\ apc' = "encoded"
    /\ UNCHANGED <<address, avalid, aparsed>>
    /\ UNCHANGED nonAddrVars

ParseAddressCall ==
    /\ apc = "encoded"
    /\ aparsed' = ParseAddress(abytes)
    /\ apc' = "parsed"
    /\ UNCHANGED <<address, avalid, abytes>>
    /\ UNCHANGED nonAddrVars

NextAddr == AddressValidateCall \/ AddressBytesCall \/ ParseAddressCall

-----------------------------------------------------------------------------
(* Control scenario: NewControl(v), then setter calls *)

InitCtrlVars ==
    /\ kpc = "live"
    /\ \E v \in 0..255 : ctl = NewControl(v)
    /\ ksteps = 0

SetDIVCall ==
    /\ kpc = "live" /\ ksteps < MaxControlCalls
    /\ \E count \in SplitCounts : ctl' = SetDIV(ctl, count)
    /\ ksteps' = ksteps + 1
    /\ UNCHANGED kpc
    /\ UNCHANGED nonCtrlVars

SetDIRCall ==
    /\ kpc = "live" /\ ksteps < MaxControlCalls
    /\ \E up \in BOOLEAN : ctl' = SetDIR(ctl, up)
    /\ ksteps' = ksteps + 1
    /\ UNCHANGED kpc
    /\ UNCHANGED nonCtrlVars

SetFCBCall ==
    /\ kpc = "live" /\ ksteps < MaxControlCalls
    /\ \E fcb \in FrameCounts : ctl' = SetFCB(ctl, fcb)
    /\ ksteps' = ksteps + 1
    /\ UNCHANGED kpc
    /\ UNCHANGED nonCtrlVars

SetCodeCall ==
    /\ kpc = "live" /\ ksteps < MaxControlCalls
    /\ \E code \in CommandCodes : ctl' = SetCode(ctl, code)
    /\ ksteps' = ksteps + 1
    /\ UNCHANGED kpc
    /\ UNCHANGED nonCtrlVars

NextCtrl == SetDIVCall \/ SetDIRCall \/ SetFCBCall \/ SetCodeCall

-----------------------------------------------------------------------------
(* Codec-test scenario: TestPacketCodec_Simple on a userData value *)

InitTestVars ==
    /\ tpc = "start"
    /\ tdata \in TestDatas
    /\ tpacket = <<>>
    /\ tresult = NoDecoded

\* the test computes cs with its own helper and builds the packet
TestBuildPacket ==
    /\ tpc = "start"
    /\ tpacket' = TestPacket(tdata)
    /\ tpc' = "built"
    /\ UNCHANGED <<tdata, tresult>>
    /\ UNCHANGED nonTestVars

TestDecodePacket ==
    /\ tpc = "built"
    /\ tresult' = DecodePacket(tpacket)
    /\ tpc' = "decoded"
    /\ UNCHANGED <<tdata, tpacket>>
    /\ UNCHANGED nonTestVars

NextTest == TestBuildPacket \/ TestDecodePacket

-----------------------------------------------------------------------------
(* Station scenario: one Start call and one Stop call on a new Station, and *)
(* the two loops Start spawns                                               *)

\* NewStation: not running, no connection, an open stopCh, serialNum 0
InitStationVars ==
    /\ startpc = "ready" /\ stoppc = "ready"
    /\ running = FALSE
    /\ stopCh = "open"
    /\ conn = "nil"
    /\ mu = "free"
    /\ serialNum = 0
    /\ task = [t \in Tasks |-> "none"]
    /\ lastSerial = Nil /\ maxEarlier = Nil

\* Start: the critical section that tests and sets running
StartLock ==
    /\ startpc = "ready" /\ mu = "free"
    /\ IF running THEN startpc' = "returned_early" ELSE startpc' = "dial"
    /\ running' = TRUE
    /\ UNCHANGED <<stoppc, stopCh, conn, mu, serialNum, task, lastSerial, maxEarlier>>
    /\ UNCHANGED nonStationVars

\* Start: net.Dial, which fails or gives the connection stored in s.conn
StartDial ==
    /\ startpc = "dial"
    /\ \/ startpc' = "failed" /\ UNCHANGED conn
       \/ startpc' = "spawn" /\ conn' = "open"
    /\ UNCHANGED <<stoppc, running, stopCh, mu, serialNum, task, lastSerial, maxEarlier>>
    /\ UNCHANGED nonStationVars

\* Start: go s.heartbeatLoop(); go s.uploadLoop(interval); return nil
StartSpawn ==
    /\ startpc = "spawn"
    /\ task' = [t \in Tasks |-> "select"]
    /\ startpc' = "returned"
    /\ UNCHANGED <<stoppc, running, stopCh, conn, mu, serialNum, lastSerial, maxEarlier>>
    /\ UNCHANGED nonStationVars

\* Stop: s.mu.Lock()
StopLock ==
    /\ stoppc = "ready" /\ mu = "free"
    /\ mu' = "stop"
    /\ stoppc' = "locked"
    /\ UNCHANGED <<startpc, running, stopCh, conn, serialNum, task, lastSerial, maxEarlier>>
    /\ UNCHANGED nonStationVars

\* Stop: return (and unlock) when not running, else running = false
StopCheck ==
    /\ stoppc = "locked"
    /\ IF running
       THEN /\ running' = FALSE /\ stoppc' = "flagged" /\ UNCHANGED mu
       ELSE /\ stoppc' = "returned_early" /\ mu' = "free" /\ UNCHANGED running
    /\ UNCHANGED <<startpc, stopCh, conn, serialNum, task, lastSerial, maxEarlier>>
    /\ UNCHANGED nonStationVars

\* Stop: close(s.stopCh)
StopCloseCh ==
    /\ stoppc = "flagged"
    /\ stopCh' = "closed"
    /\ stoppc' = "signalled"
    /\ UNCHANGED <<startpc, running, conn, mu, serialNum, task, lastSerial, maxEarlier>>
    /\ UNCHANGED nonStationVars

\* Stop: if s.conn != nil { s.conn.Close() }, then the deferred Unlock.  Start
\* stores s.conn outside the mutex, so while Start has not returned the read
\* of s.conn here races with that store and may see nil or the connection.
StopCloseConn ==
    /\ stoppc = "signalled"
    /\ \E seen \in (IF conn # "nil" /\ startpc # "returned"
                     THEN {"nil", conn} ELSE {conn}) :
         conn' = IF seen = "nil" THEN conn ELSE "closed"
    /\ mu' = "free"
    /\ stoppc' = "returned"
    /\ UNCHANGED <<startpc, running, stopCh, serialNum, task, lastSerial, maxEarlier>>
    /\ UNCHANGED nonStationVars

\* a loop whose select never takes the stopCh case
LoopStopIgnored(t) ==
    /\ task[t] = "select" /\ stopCh = "closed"
    /\ UNCHANGED vars

\* heartbeatLoop / uploadLoop: case <-s.stopCh: return
LoopStop(t) ==
    /\ task[t] = "select" /\ stopCh = "closed"
    /\ task' = [task EXCEPT ![t] = "done"]
    /\ UNCHANGED <<startpc, stoppc, running, stopCh, conn, mu, serialNum, lastSerial, maxEarlier>>
    /\ UNCHANGED nonStationVars

\* heartbeatLoop / uploadLoop: case <-ticker.C, then sendHeartbeat /
\* uploadData up to the call of nextSerialNum (NewPacket cannot fail on the
\* fixed payloads)
LoopTick(t) ==
    /\ task[t] = "select"
    /\ task' = [task EXCEPT ![t] = "lock"]
    /\ UNCHANGED <<startpc, stoppc, running, stopCh, conn, mu, serialNum, lastSerial, maxEarlier>>
    /\ UNCHANGED nonStationVars

\* nextSerialNum: s.mu.Lock()
SerialLock(t) ==
    /\ task[t] = "lock" /\ mu = "free"
    /\ mu' = t
    /\ task' = [task EXCEPT ![t] = "locked"]
    /\ UNCHANGED <<startpc, stoppc, running, stopCh, conn, serialNum, lastSerial, maxEarlier>>
    /\ UNCHANGED nonStationVars

\* nextSerialNum: s.serialNum++; return s.serialNum; the deferred Unlock
nextSerialNum(t) ==
    /\ task[t] = "locked" /\ mu = t
    /\ serialNum' = NextSerial(serialNum)
    /\ maxEarlier' = IF lastSerial > maxEarlier THEN lastSerial ELSE maxEarlier
    /\ lastSerial' = serialNum'
    /\ mu' = "free"
    /\ task' = [task EXCEPT ![t] = "write"]
    /\ UNCHANGED <<startpc, stoppc, running, stopCh, conn>>
    /\ UNCHANGED nonStationVars

\* sendHeartbeat / uploadData: s.conn.Write(data) is called
WriteBegin(t) ==
    /\ task[t] = "write"
    /\ task' = [task EXCEPT ![t] = "writing"]
    /\ UNCHANGED <<startpc, stoppc, running, stopCh, conn, mu, serialNum, lastSerial, maxEarlier>>
    /\ UNCHANGED nonStationVars

\* sendHeartbeat / uploadData: s.conn.Write returns, with or without an
\* error, and the loop is back at its select
WriteEnd(t) ==
    /\ task[t] = "writing"
    /\ task' = [task EXCEPT ![t] = "select"]
    /\ UNCHANGED <<startpc, stoppc, running, stopCh, conn, mu, serialNum, lastSerial, maxEarlier>>
    /\ UNCHANGED nonStationVars

sendHeartbeat ==
    \/ LoopTick("hb") \/ SerialLock("hb") \/ nextSerialNum("hb")
    \/ WriteBegin("hb") \/ WriteEnd("hb")

uploadData ==
    \/ LoopTick("up") \/ SerialLock("up") \/ nextSerialNum("up")
    \/ WriteBegin("up") \/ WriteEnd("up")

NextStation ==
    \/ StartLock \/ StartDial \/ StartSpawn
    \/ StopLock \/ StopCheck \/ StopCloseCh \/ StopCloseConn
    \/ LoopStop("hb") \/ LoopStop("up")
    \/ sendHeartbeat \/ uploadData

\* the loops and Stop keep running; the select of a loop takes each ready
\* case in the long run, and the mutex is granted to every waiter
StationFairness ==
    /\ WF_vars(StopLock) /\ WF_vars(StopCheck)
    /\ WF_vars(StopCloseCh) /\ WF_vars(StopCloseConn)
    /\ \A t \in Tasks :
         /\ SF_vars(LoopStop(t))
         /\ SF_vars(SerialLock(t))
         /\ WF_vars(nextSerialNum(t))
         /\ WF_vars(WriteBegin(t))
         /\ WF_vars(WriteEnd(t))

-----------------------------------------------------------------------------
(* Server scenario: acceptLoop and the worker goroutines it starts *)

\* Server.Start has returned: acceptLoop is at its select, s.conns is empty
InitServerVars ==
    /\ looppc = "select" /\ cancelled = FALSE
    /\ registry = [a \in RemoteAddrs |-> Nil]
    /\ cstate = [c \in ConnIds |-> "none"]
    /\ raddr = [c \in ConnIds |-> Nil]
    /\ cur = Nil

\* main: cancel()
Cancel ==
    /\ looppc # "idle" /\ ~cancelled
    /\ cancelled' = TRUE
    /\ UNCHANGED <<looppc, registry, cstate, raddr, cur>>
    /\ UNCHANGED nonServerVars

\* acceptLoop: case <-ctx.Done(): return
AcceptLoopDone ==
    /\ looppc = "select" /\ cancelled
    /\ looppc' = "returned"
    /\ UNCHANGED <<cancelled, registry, cstate, raddr, cur>>
    /\ UNCHANGED nonServerVars

\* acceptLoop: default: conn, err := s.listener.Accept().  The listener
\* returns the next connection; its remote address is one that no connection
\* still open on the server has.
Accept ==
    /\ looppc = "select"
    /\ \E c \in ConnIds, a \in RemoteAddrs :
         /\ cstate[c] = "none"
         /\ \A d \in ConnIds : d < c => cstate[d] # "none"
         /\ \A d \in ConnIds :
              cstate[d] \in {"accepted", "stored", "serving"} => raddr[d] # a
         /\ cstate' = [cstate EXCEPT ![c] = "accepted"]
         /\ raddr' = [raddr EXCEPT ![c] = a]
         /\ cur' = c
    /\ looppc' = "check"
    /\ UNCHANGED <<cancelled, registry>>
    /\ UNCHANGED nonServerVars

\* acceptLoop: if s.getConnCount() >= s.config.MaxConns { conn.Close(); continue }
CheckLimit ==
    /\ looppc = "check"
    /\ IF getConnCount(registry) >= MaxConns
       THEN /\ cstate' = [cstate EXCEPT ![cur] = "rejected"]
            /\ cur' = Nil
            /\ looppc' = "select"
       ELSE /\ looppc' = "store"
            /\ UNCHANGED <<cstate, cur>>
    /\ UNCHANGED <<cancelled, registry, raddr>>
    /\ UNCHANGED nonServerVars

\* acceptLoop: s.conns.Store(conn.RemoteAddr().String(), handler)
StoreConn ==
    /\ looppc = "store"
    /\ registry' = [registry EXCEPT ![raddr[cur]] = cur]
    /\ cstate' = [cstate EXCEPT ![cur] = "stored"]
    /\ looppc' = "spawn"
    /\ UNCHANGED <<cancelled, raddr, cur>>
    /\ UNCHANGED nonServerVars

\* acceptLoop: go func() { ... handler.Handle() ... }()
SpawnWorker ==
    /\ looppc = "spawn"
    /\ cstate' = [cstate EXCEPT ![cur] = "serving"]
    /\ cur' = Nil
    /\ looppc' = "select"
    /\ UNCHANGED <<cancelled, registry, raddr>>
    /\ UNCHANGED nonServerVars

\* worker: handler.Handle() returns; its deferred h.Close() has closed the
\* connection
HandleReturns ==
    /\ \E c \in ConnIds :
         /\ cstate[c] = "serving"
         /\ cstate' = [cstate EXCEPT ![c] = "closed"]
    /\ UNCHANGED <<looppc, cancelled, registry, raddr, cur>>
    /\ UNCHANGED nonServerVars

\* worker: the deferred s.conns.Delete(conn.RemoteAddr().String())
WorkerDelete ==
    /\ \E c \in ConnIds :
         /\ cstate[c] = "closed"
         /\ registry' = [registry EXCEPT ![raddr[c]] = Nil]
         /\ cstate' = [cstate EXCEPT ![c] = "gone"]
    /\ UNCHANGED <<looppc, cancelled, raddr, cur>>
    /\ UNCHANGED nonServerVars

NextServer ==
    \/ Cancel \/ AcceptLoopDone \/ Accept \/ CheckLimit \/ StoreConn
    \/ SpawnWorker \/ HandleReturns \/ WorkerDelete

-----------------------------------------------------------------------------
(* Handler scenario: Handle on one connection *)

\* NewHandler on an open connection; Handle is at the top of its loop
InitHandlerVars ==
    /\ hpc = "read"
    /\ hstream \in ChunkStreams(MaxChunks)
    /\ hpos = 0
    /\ hevents = <<>>
    /\ hclosed = FALSE
    /\ hfail \in ReadFailures
    /\ hret = NilError

\* Handle: p, err := h.readPacket(), and what Handle does with the error:
\* continue, or return err with the deferred h.Close()
ReadPacketStep ==
    /\ hpc = "read"
    /\ \E r \in {readPacket(hstream, hpos)} :
          /\ hpos' = r.pos
          /\ hevents' = Append(hevents, [code |-> r.code, cause |-> r.cause])
          /\ IF r.code = "none"
             THEN hpc' = "handle" /\ UNCHANGED <<hclosed, hret>>
             ELSE IF ContinueOn(r.code)
             THEN hpc' = "read" /\ UNCHANGED <<hclosed, hret>>
             ELSE /\ hpc' = "returned" /\ hclosed' = TRUE
                  /\ hret' = HandleReturn(readPacketError(r, hfail))
    /\ UNCHANGED <<hstream, hfail>>
    /\ UNCHANGED nonHandlerVars

\* Handle: h.packetHandler.HandlePacket(p), which returns nil or an error;
\* either way the loop goes on
HandlePacketStep ==
    /\ hpc = "handle"
    /\ \E failed \in BOOLEAN :
         hevents' = Append(hevents,
                           [code |-> IF failed THEN "handler_error" ELSE "none",
                            cause |-> "handler"])
    /\ hpc' = "read"
    /\ UNCHANGED <<hstream, hpos, hclosed, hfail, hret>>
    /\ UNCHANGED nonHandlerVars

NextHandler == ReadPacketStep \/ HandlePacketStep

\* Handle runs in its own goroutine: a read on a connection that delivers
\* finitely many bytes and then fails returns, and so does HandlePacket
HandlerFairness == WF_vars(ReadPacketStep) /\ WF_vars(HandlePacketStep)

-----------------------------------------------------------------------------
(* Re-encode scenario: decode a heartbeat frame and encode the result again *)

InitEchoVars ==
    /\ epc = "start"
    /\ eframe \in HeartbeatFrames
    /\ edec = NoDecoded /\ eud = NoParsed /\ eregion = <<>> /\ eout = NoEncoded

EchoDecodePacket ==
    /\ epc = "start"
    /\ edec' = DecodePacket(eframe)
    /\ epc' = IF edec'.err = "none" THEN "decoded" ELSE "failed"
    /\ UNCHANGED <<eframe, eud, eregion, eout>>
    /\ UNCHANGED nonEchoVars

EchoNewUserData ==
    /\ epc = "decoded"
    /\ eud' = NewUserData(edec.frame.UserDataRaw)
    /\ epc' = IF eud'.err = "none" THEN "parsed" ELSE "failed"
    /\ UNCHANGED <<eframe, edec, eregion, eout>>
    /\ UNCHANGED nonEchoVars

EchoBytes ==
    /\ epc = "parsed"
    /\ eregion' = UserDataBytes(eud.ud)
    /\ epc' = "assembled"
    /\ UNCHANGED <<eframe, edec, eud, eout>>
    /\ UNCHANGED nonEchoVars

EchoEncodePacket ==
    /\ epc = "assembled"
    /\ eout' = EncodePacket(NewFrame(eregion))
    /\ epc' = "encoded"
    /\ UNCHANGED <<eframe, edec, eud, eregion>>
    /\ UNCHANGED nonEchoVars

NextEcho ==
    EchoDecodePacket \/ EchoNewUserData \/ EchoBytes \/ EchoEncodePacket


-----------------------------------------------------------------------------
(* Packet scenario: either build a packet with NewPacket, set its serial  *)
(* number, encode it with Bytes and parse the bytes; or parse a byte      *)
(* sequence and encode the result again                                    *)

InitPacketVars ==
    /\ pkt = NoPacket /\ pparsed = NoParsedPacket /\ preenc = <<>>
    /\ \/ /\ pmode = "build" /\ ppc = "start"
          /\ pargs \in PacketArgs /\ pbytes = <<>>
       \/ /\ pmode = "raw" /\ ppc = "encoded"
          /\ pargs = NoPacketArgs /\ pbytes \in RawPackets

NewPacketCall ==
    /\ ppc = "start"
    /\ LET r == NewPacket(pargs.address, pargs.command, pargs.data)
       IN  /\ pkt' = r.p
           /\ ppc' = IF r.err = "none" THEN "built" ELSE "rejected"
    /\ UNCHANGED <<pmode, pargs, pbytes, pparsed, preenc>>
    /\ UNCHANGED nonPacketVars

\* p.Header.SerialNum = s.nextSerialNum()
SetSerialNum ==
    /\ ppc = "built"
    /\ pkt' = [pkt EXCEPT !.Header.SerialNum = pargs.serial]
    /\ ppc' = "numbered"
    /\ UNCHANGED <<pmode, pargs, pbytes, pparsed, preenc>>
    /\ UNCHANGED nonPacketVars

PacketBytesCall ==
    /\ ppc = "numbered"
    /\ pbytes' = PacketBytes(pkt)
    /\ pkt' = PacketAfterBytes(pkt)
    /\ ppc' = "encoded"
    /\ UNCHANGED <<pmode, pargs, pparsed, preenc>>
    /\ UNCHANGED nonPacketVars

ParseCall ==
    /\ ppc = "encoded"
    /\ pparsed' = Parse(pbytes)
    /\ ppc' = IF pparsed'.err = "none" THEN "parsed" ELSE "parse_failed"
    /\ UNCHANGED <<pmode, pargs, pkt, pbytes, preenc>>
    /\ UNCHANGED nonPacketVars

ReencodeCall ==
    /\ ppc = "parsed"
    /\ preenc' = PacketBytes(pparsed.p)
    /\ pparsed' = [pparsed EXCEPT !.p = PacketAfterBytes(pparsed.p)]
    /\ ppc' = "reencoded"
    /\ UNCHANGED <<pmode, pargs, pkt, pbytes>>
    /\ UNCHANGED nonPacketVars

NextPacket ==
    \/ NewPacketCall
    \/ SetSerialNum
    \/ PacketBytesCall
    \/ ParseCall
    \/ ReencodeCall


-----------------------------------------------------------------------------
(* BCD scenario: EncodeInt(n, k) then DecodeInt, or ToBCD(v) then FromBCD *)

InitBcdVars ==
    /\ bpc = "start" /\ benc = <<>> /\ bdec = U32(0, 0)
    /\ \/ bmode = "int" /\ bn \in Uint32s /\ bk \in ByteCounts
       \/ bmode = "byte" /\ bn \in {U32(0, v) : v \in 0..255} /\ bk = 1

EncodeIntCall ==
    /\ bpc = "start" /\ bmode = "int"
    /\ benc' = EncodeInt(bn, bk)
    /\ bpc' = "encoded"
    /\ UNCHANGED <<bmode, bn, bk, bdec>>
    /\ UNCHANGED nonBcdVars

DecodeIntCall ==
    /\ bpc = "encoded" /\ bmode = "int"
    /\ bdec' = DecodeInt(benc)
    /\ bpc' = "decoded"
    /\ UNCHANGED <<bmode, bn, bk, benc>>
    /\ UNCHANGED nonBcdVars

ToBCDCall ==
    /\ bpc = "start" /\ bmode = "byte"
    /\ benc' = <<ToBCD(bn.lo)>>
    /\ bpc' = "encoded"
    /\ UNCHANGED <<bmode, bn, bk, bdec>>
    /\ UNCHANGED nonBcdVars

FromBCDCall ==
    /\ bpc = "encoded" /\ bmode = "byte"
    /\ bdec' = U32(0, FromBCD(benc[1]))
    /\ bpc' = "decoded"
    /\ UNCHANGED <<bmode, bn, bk, benc>>
    /\ UNCHANGED nonBcdVars

NextBcd ==
    \/ EncodeIntCall
    \/ DecodeIntCall
    \/ ToBCDCall
    \/ FromBCDCall


-----------------------------------------------------------------------------
(* Upload scenario: protocol.ParseUploadData on a payload *)

InitUploadVars ==
    /\ pupc = "start"
    /\ pusrc \in UploadSources
    /\ pudata = UploadBytes(pusrc)
    /\ puresult = NoParsedUpload

ParseUploadDataCall ==
    /\ pupc = "start"
    /\ puresult' = ParseUploadData(pudata)
    /\ pupc' = "returned"
    /\ UNCHANGED <<pusrc, pudata>>
    /\ UNCHANGED nonUploadVars

NextUpload ==
    \/ ParseUploadDataCall


-----------------------------------------------------------------------------
(* Measurement scenario: types.ParseUploadData on a data field *)

InitMeasureVars ==
    /\ mpc = "start"
    /\ mtype \in UploadTypes
    /\ mfield \in UploadFields
    /\ mresult = NoUploadResult

TypesParseUploadDataCall ==
    /\ mpc = "start"
    /\ mresult' = TypesParseUploadData(mtype, mfield)
    /\ mpc' = "returned"
    /\ UNCHANGED <<mtype, mfield>>
    /\ UNCHANGED nonMeasureVars

NextMeasure ==
    \/ TypesParseUploadDataCall


-----------------------------------------------------------------------------
(* Raw user-data scenario: NewUserData on an arbitrary byte sequence *)

InitRawVars ==
    /\ wpc = "start"
    /\ wdata \in RawUserDatas
    /\ wud = NoParsed
    /\ wtrace = NoTrace

RawNewUserDataCall ==
    /\ wpc = "start"
    /\ wud' = NewUserData(wdata)
    /\ wtrace' = NewUserDataTrace(wdata)
    /\ wpc' = "returned"
    /\ UNCHANGED wdata
    /\ UNCHANGED nonRawVars

NextRaw ==
    \/ RawNewUserDataCall


-----------------------------------------------------------------------------
(* Metrics scenario: the connection workers call HandlePacket on packets,  *)
(* all on one shared Metrics                                                *)

InitMetricsVars ==
    /\ wkpc = [w \in Workers |-> "idle"]
    /\ wkcmd = [w \in Workers |-> 0]
    /\ PacketsReceived = 0 /\ PacketsSent = 0 /\ PacketsDropped = 0
    /\ ProcessingLatency = 0
    /\ handled = 0 /\ completed = 0

\* a worker's Handle loop calls HandlePacket(p): start := time.Now() and the
\* defer
HandlePacketBegin(w) ==
    /\ wkpc[w] = "idle"
    /\ handled >= 0 /\ handled < MaxHandled
    /\ \E c \in PacketCommandsHandled : wkcmd' = [wkcmd EXCEPT ![w] = c]
    /\ wkpc' = [wkpc EXCEPT ![w] = "entered"]
    /\ handled' = handled + 1
    /\ UNCHANGED <<PacketsReceived, PacketsSent, PacketsDropped,
                   ProcessingLatency, completed>>
    /\ UNCHANGED nonMetricsVars

\* h.metrics.RecordReceive(): atomic.AddUint64(&m.PacketsReceived, 1)
RecordReceive(w) ==
    /\ wkpc[w] = "entered"
    /\ PacketsReceived' = PacketsReceived + 1
    /\ wkpc' = [wkpc EXCEPT ![w] = "switch"]
    /\ UNCHANGED <<wkcmd, PacketsSent, PacketsDropped, ProcessingLatency,
                   handled, completed>>
    /\ UNCHANGED nonMetricsVars

\* the switch on p.Header.Command up to the Record call of the branch taken:
\* ParseUploadData, BuildResponsePacket and sendResponse succeed or fail
HandleCommand(w) ==
    /\ wkpc[w] = "switch"
    /\ IF wkcmd[w] \in {CmdHeartbeat, CmdUpload}
       THEN \E failed \in BOOLEAN :
                wkpc' = [wkpc EXCEPT ![w] = IF failed THEN "drop" ELSE "send"]
       ELSE wkpc' = [wkpc EXCEPT ![w] = "drop"]
    /\ UNCHANGED <<wkcmd, PacketsReceived, PacketsSent, PacketsDropped,
                   ProcessingLatency, handled, completed>>
    /\ UNCHANGED nonMetricsVars

\* a branch that returns its error without the call of RecordDrop
RecordDropForgotten(w) ==
    /\ wkpc[w] = "drop"
    /\ wkpc' = [wkpc EXCEPT ![w] = "return"]
    /\ UNCHANGED <<wkcmd, PacketsReceived, PacketsSent, PacketsDropped,
                   ProcessingLatency, handled, completed>>
    /\ UNCHANGED nonMetricsVars

\* h.metrics.RecordDrop(): atomic.AddUint64(&m.PacketsDropped, 1)
RecordDrop(w) ==
    /\ wkpc[w] = "drop"
    /\ PacketsDropped' = PacketsDropped + 1
    /\ wkpc' = [wkpc EXCEPT ![w] = "return"]
    /\ UNCHANGED <<wkcmd, PacketsReceived, PacketsSent, ProcessingLatency,
                   handled, completed>>
    /\ UNCHANGED nonMetricsVars

\* h.metrics.RecordSend(): atomic.AddUint64(&m.PacketsSent, 1)
RecordSend(w) ==
    /\ wkpc[w] = "send"
    /\ PacketsSent' = PacketsSent + 1
    /\ wkpc' = [wkpc EXCEPT ![w] = "return"]
    /\ UNCHANGED <<wkcmd, PacketsReceived, PacketsDropped, ProcessingLatency,
                   handled, completed>>
    /\ UNCHANGED nonMetricsVars

\* return, and the deferred RecordLatency(start): m.ProcessingLatency is
\* overwritten with this call's latency
HandlePacketReturn(w) ==
    /\ wkpc[w] = "return"
    /\ ProcessingLatency' = w
    /\ wkpc' = [wkpc EXCEPT ![w] = "idle"]
    /\ completed' = completed + 1
    /\ UNCHANGED <<wkcmd, PacketsReceived, PacketsSent, PacketsDropped,
                   handled>>
    /\ UNCHANGED nonMetricsVars

NextMetrics ==
    \/ \E w \in Workers : HandlePacketBegin(w)
    \/ \E w \in Workers : RecordReceive(w)
    \/ \E w \in Workers : HandleCommand(w)
    \/ \E w \in Workers : RecordDrop(w)
    \/ \E w \in Workers : RecordSend(w)
    \/ \E w \in Workers : HandlePacketReturn(w)


-----------------------------------------------------------------------------
(* Lifecycle scenario: one caller makes Start and Stop calls, one after the *)
(* other, on a new Station                                                  *)

\* NewStation: stopCh is made once, here
InitLifecycleVars ==
    /\ lpc = "ready" /\ lrunning = FALSE /\ lconn = "nil" /\ lcloses = 0
    /\ lloops = 0 /\ lhist = <<>>

\* Station.Start, from Lock to return; net.Dial succeeds or fails
StartCall ==
    /\ lpc = "ready" /\ Len(lhist) < MaxLifecycleCalls
    /\ IF lrunning
       THEN /\ lhist' = Append(lhist, "start_noop")
            /\ UNCHANGED <<lrunning, lconn, lloops>>
       ELSE /\ lrunning' = TRUE
            /\ \E dialed \in BOOLEAN :
                 IF dialed
                 THEN /\ lconn' = "open"
                      /\ lloops' = lloops + 2
                      /\ lhist' = Append(lhist, "start_ok")
                 ELSE /\ lhist' = Append(lhist, "start_failed")
                      /\ UNCHANGED <<lconn, lloops>>
    /\ UNCHANGED <<lpc, lcloses>>
    /\ UNCHANGED nonLifecycleVars

\* Station.Stop, from Lock to the deferred Unlock; close(s.stopCh) of a
\* closed channel panics
StopCall ==
    /\ lpc = "ready" /\ Len(lhist) < MaxLifecycleCalls
    /\ IF ~lrunning
       THEN /\ lhist' = Append(lhist, "stop_noop")
            /\ UNCHANGED <<lpc, lrunning, lconn, lcloses>>
       ELSE /\ lrunning' = FALSE
            /\ lcloses' = lcloses + 1
            /\ IF lcloses >= 1
               THEN /\ lpc' = "panicked"
                    /\ lhist' = Append(lhist, "stop_panic")
                    /\ UNCHANGED lconn
               ELSE /\ lconn' = IF lconn # "nil" THEN "closed" ELSE lconn
                    /\ lhist' = Append(lhist, "stop")
                    /\ UNCHANGED lpc
    /\ UNCHANGED lloops
    /\ UNCHANGED nonLifecycleVars

\* heartbeatLoop / uploadLoop: case <-s.stopCh: return
LifecycleLoopExit ==
    /\ lpc = "ready" /\ lloops > 0 /\ lcloses >= 1
    /\ lloops' = lloops - 1
    /\ UNCHANGED <<lpc, lrunning, lconn, lcloses, lhist>>
    /\ UNCHANGED nonLifecycleVars

NextLifecycle ==
    \/ StartCall
    \/ StopCall
    \/ LifecycleLoopExit

-----------------------------------------------------------------------------
(* Specifications *)

InitCodec ==
    /\ InitCodecVars
    /\ ReaderIdle
    /\ UserIdle
    /\ AddrIdle
    /\ CtrlIdle
    /\ TestIdle
    /\ StationIdle
    /\ ServerIdle
    /\ HandlerIdle
    /\ EchoIdle
    /\ PacketIdle
    /\ BcdIdle
    /\ UploadIdle
    /\ MeasureIdle
    /\ RawIdle
    /\ MetricsIdle
    /\ LifecycleIdle
InitReader ==
    /\ CodecIdle
    /\ InitReaderVars
    /\ UserIdle
    /\ AddrIdle
    /\ CtrlIdle
    /\ TestIdle
    /\ StationIdle
    /\ ServerIdle
    /\ HandlerIdle
    /\ EchoIdle
    /\ PacketIdle
    /\ BcdIdle
    /\ UploadIdle
    /\ MeasureIdle
    /\ RawIdle
    /\ MetricsIdle
    /\ LifecycleIdle
InitUser ==
    /\ CodecIdle
    /\ ReaderIdle
    /\ InitUserVars
    /\ AddrIdle
    /\ CtrlIdle
    /\ TestIdle
    /\ StationIdle
    /\ ServerIdle
    /\ HandlerIdle
    /\ EchoIdle
    /\ PacketIdle
    /\ BcdIdle
    /\ UploadIdle
    /\ MeasureIdle
    /\ RawIdle
    /\ MetricsIdle
    /\ LifecycleIdle
InitAddr ==
    /\ CodecIdle
    /\ ReaderIdle
    /\ UserIdle
    /\ InitAddrVars
    /\ CtrlIdle
    /\ TestIdle
    /\ StationIdle
    /\ ServerIdle
    /\ HandlerIdle
    /\ EchoIdle
    /\ PacketIdle
    /\ BcdIdle
    /\ UploadIdle
    /\ MeasureIdle
    /\ RawIdle
    /\ MetricsIdle
    /\ LifecycleIdle
InitCtrl ==
    /\ CodecIdle
    /\ ReaderIdle
    /\ UserIdle
    /\ AddrIdle
    /\ InitCtrlVars
    /\ TestIdle
    /\ StationIdle
    /\ ServerIdle
    /\ HandlerIdle
    /\ EchoIdle
    /\ PacketIdle
    /\ BcdIdle
    /\ UploadIdle
    /\ MeasureIdle
    /\ RawIdle
    /\ MetricsIdle
    /\ LifecycleIdle
InitTest ==
    /\ CodecIdle
    /\ ReaderIdle
    /\ UserIdle
    /\ AddrIdle
    /\ CtrlIdle
    /\ InitTestVars
    /\ StationIdle
    /\ ServerIdle
    /\ HandlerIdle
    /\ EchoIdle
    /\ PacketIdle
    /\ BcdIdle
    /\ UploadIdle
    /\ MeasureIdle
    /\ RawIdle
    /\ MetricsIdle
    /\ LifecycleIdle
InitStation ==
    /\ CodecIdle
    /\ ReaderIdle
    /\ UserIdle
    /\ AddrIdle
    /\ CtrlIdle
    /\ TestIdle
    /\ InitStationVars
    /\ ServerIdle
    /\ HandlerIdle
    /\ EchoIdle
    /\ PacketIdle
    /\ BcdIdle
    /\ UploadIdle
    /\ MeasureIdle
    /\ RawIdle
    /\ MetricsIdle
    /\ LifecycleIdle
InitServer ==
    /\ CodecIdle
    /\ ReaderIdle
    /\ UserIdle
    /\ AddrIdle
    /\ CtrlIdle
    /\ TestIdle
    /\ StationIdle
    /\ InitServerVars
    /\ HandlerIdle
    /\ EchoIdle
    /\ PacketIdle
    /\ BcdIdle
    /\ UploadIdle
    /\ MeasureIdle
    /\ RawIdle
    /\ MetricsIdle
    /\ LifecycleIdle
InitHandler ==
    /\ CodecIdle
    /\ ReaderIdle
    /\ UserIdle
    /\ AddrIdle
    /\ CtrlIdle
    /\ TestIdle
    /\ StationIdle
    /\ ServerIdle
    /\ InitHandlerVars
    /\ EchoIdle
    /\ PacketIdle
    /\ BcdIdle
    /\ UploadIdle
    /\ MeasureIdle
    /\ RawIdle
    /\ MetricsIdle
    /\ LifecycleIdle
InitEcho ==
    /\ CodecIdle
    /\ ReaderIdle
    /\ UserIdle
    /\ AddrIdle
    /\ CtrlIdle
    /\ TestIdle
    /\ StationIdle
    /\ ServerIdle
    /\ HandlerIdle
    /\ InitEchoVars
    /\ PacketIdle
    /\ BcdIdle
    /\ UploadIdle
    /\ MeasureIdle
    /\ RawIdle
    /\ MetricsIdle
    /\ LifecycleIdle
InitPacket ==
    /\ CodecIdle
    /\ ReaderIdle
    /\ UserIdle
    /\ AddrIdle
    /\ CtrlIdle
    /\ TestIdle
    /\ StationIdle
    /\ ServerIdle
    /\ HandlerIdle
    /\ EchoIdle
    /\ InitPacketVars
    /\ BcdIdle
    /\ UploadIdle
    /\ MeasureIdle
    /\ RawIdle
    /\ MetricsIdle
    /\ LifecycleIdle
InitBcd ==
    /\ CodecIdle
    /\ ReaderIdle
    /\ UserIdle
    /\ AddrIdle
    /\ CtrlIdle
    /\ TestIdle
    /\ StationIdle
    /\ ServerIdle
    /\ HandlerIdle
    /\ EchoIdle
    /\ PacketIdle
    /\ InitBcdVars
    /\ UploadIdle
    /\ MeasureIdle
    /\ RawIdle
    /\ MetricsIdle
    /\ LifecycleIdle
InitUpload ==
    /\ CodecIdle
    /\ ReaderIdle
    /\ UserIdle
    /\ AddrIdle
    /\ CtrlIdle
    /\ TestIdle
    /\ StationIdle
    /\ ServerIdle
    /\ HandlerIdle
    /\ EchoIdle
    /\ PacketIdle
    /\ BcdIdle
    /\ InitUploadVars
    /\ MeasureIdle
    /\ RawIdle
    /\ MetricsIdle
    /\ LifecycleIdle
InitMeasure ==
    /\ CodecIdle
    /\ ReaderIdle
    /\ UserIdle
    /\ AddrIdle
    /\ CtrlIdle
    /\ TestIdle
    /\ StationIdle
    /\ ServerIdle
    /\ HandlerIdle
    /\ EchoIdle
    /\ PacketIdle
    /\ BcdIdle
    /\ UploadIdle
    /\ InitMeasureVars
    /\ RawIdle
    /\ MetricsIdle
    /\ LifecycleIdle
InitRaw ==
    /\ CodecIdle
    /\ ReaderIdle
    /\ UserIdle
    /\ AddrIdle
    /\ CtrlIdle
    /\ TestIdle
    /\ StationIdle
    /\ ServerIdle
    /\ HandlerIdle
    /\ EchoIdle
    /\ PacketIdle
    /\ BcdIdle
    /\ UploadIdle
    /\ MeasureIdle
    /\ InitRawVars
    /\ MetricsIdle
    /\ LifecycleIdle
InitMetrics ==
    /\ CodecIdle
    /\ ReaderIdle
    /\ UserIdle
    /\ AddrIdle
    /\ CtrlIdle
    /\ TestIdle
    /\ StationIdle
    /\ ServerIdle
    /\ HandlerIdle
    /\ EchoIdle
    /\ PacketIdle
    /\ BcdIdle
    /\ UploadIdle
    /\ MeasureIdle
    /\ RawIdle
    /\ InitMetricsVars
    /\ LifecycleIdle
InitLifecycle ==
    /\ CodecIdle
    /\ ReaderIdle
    /\ UserIdle
    /\ AddrIdle
    /\ CtrlIdle
    /\ TestIdle
    /\ StationIdle
    /\ ServerIdle
    /\ HandlerIdle
    /\ EchoIdle
    /\ PacketIdle
    /\ BcdIdle
    /\ UploadIdle
    /\ MeasureIdle
    /\ RawIdle
    /\ MetricsIdle
    /\ InitLifecycleVars

SpecCodec == InitCodec /\ [][NextCodec]_vars
SpecReader == InitReader /\ [][NextReader]_vars
SpecUser == InitUser /\ [][NextUser]_vars
SpecAddr == InitAddr /\ [][NextAddr]_vars
SpecCtrl == InitCtrl /\ [][NextCtrl]_vars
SpecTest == InitTest /\ [][NextTest]_vars
SpecStation == InitStation /\ [][NextStation]_vars
SpecStationFair == SpecStation /\ StationFairness
SpecServer == InitServer /\ [][NextServer]_vars
SpecHandler == InitHandler /\ [][NextHandler]_vars
SpecHandlerFair == SpecHandler /\ HandlerFairness
SpecEcho == InitEcho /\ [][NextEcho]_vars
SpecPacket == InitPacket /\ [][NextPacket]_vars
SpecBcd == InitBcd /\ [][NextBcd]_vars
SpecUpload == InitUpload /\ [][NextUpload]_vars
SpecMeasure == InitMeasure /\ [][NextMeasure]_vars
SpecRaw == InitRaw /\ [][NextRaw]_vars
SpecMetrics == InitMetrics /\ [][NextMetrics]_vars
SpecLifecycle == InitLifecycle /\ [][NextLifecycle]_vars

Init ==
    \/ InitCodec \/ InitReader \/ InitUser \/ InitAddr \/ InitCtrl \/ InitTest
    \/ InitStation \/ InitServer \/ InitHandler \/ InitEcho \/ InitPacket \/ InitBcd
    \/ InitUpload \/ InitMeasure \/ InitRaw \/ InitMetrics \/ InitLifecycle
Next ==
    \/ NextCodec \/ NextReader \/ NextUser \/ NextAddr \/ NextCtrl \/ NextTest
    \/ NextStation \/ NextServer \/ NextHandler \/ NextEcho \/ NextPacket \/ NextBcd
    \/ NextUpload \/ NextMeasure \/ NextRaw \/ NextMetrics \/ NextLifecycle
Spec == Init /\ [][Next]_vars

-----------------------------------------------------------------------------
(* Properties of the frame codec *)

\* C1: for every region r with 1 <= len(r) <= 255, decoding the encoded frame
\* that carries r succeeds and returns r and the checksum of r.
C1_FrameRoundTrip ==
    (cpc = "decoded" /\ corruption.kind = "none"
        /\ Len(region) >= 1 /\ Len(region) <= 255)
    => /\ decoded.err = "none"
       /\ decoded.frame.UserDataRaw = region
       /\ decoded.frame.CS = calculateCS(region)

\* C2: encoding returns len(r) + 5 bytes when 1 <= len(r) <= 255, and an
\* error and no bytes when len(r) = 0 or len(r) > 255.
C2_EncodeLength ==
    cpc # "start"
    => /\ (Len(region) >= 1 /\ Len(region) <= 255)
            => (encoded.err = "none" /\ Len(encoded.bytes) = Len(region) + 5)
       /\ (Len(region) = 0 \/ Len(region) > 255)
            => (encoded.err # "none" /\ encoded.bytes = <<>>)

\* C3: a valid encoded frame with one bit of its checksum byte flipped is
\* rejected with the checksum error, and one whose end marker is not 0x16
\* with the end-marker error.
C3_CorruptionDetected ==
    (cpc = "decoded" /\ Len(region) >= 1 /\ Len(region) <= 255)
    => /\ corruption.kind = "cs" => decoded.err = "checksum"
       /\ corruption.kind = "end" => decoded.err = "end_flag"

-----------------------------------------------------------------------------
(* Properties of the stream framer *)

\* the bytes of segment i, and the bytes of the stream up to its end
SegmentFrame(i) == FrameBytes(segs[i].region)

RECURSIVE SegmentEnd(_)
SegmentEnd(i) ==
    IF i = 0 THEN 0
    ELSE SegmentEnd(i - 1) + Len(segs[i].noise) + Len(SegmentFrame(i))

FirstStartAfter(from) ==
    CHOOSE i \in (from + 1)..Len(stream) :
        /\ stream[i] = StartFlag
        /\ \A j \in (from + 1)..(i - 1) : stream[j] # StartFlag

\* C6: after the first start marker, a length byte of 0 or a second marker
\* other than 0x68 ends the call with an error, that byte being the last one
\* the call consumed, and the next call starts at the byte after it.
C6_AbortAfterStart ==
    \A k \in 1..Len(calls) :
      (\E i \in (calls[k].start + 1)..Len(stream) : stream[i] = StartFlag)
      => LET st == FirstStartAfter(calls[k].start)
         IN /\ (st + 1 <= Len(stream) /\ stream[st + 1] = 0)
                 => (calls[k].err # "none" /\ calls[k].end = st + 1)
            /\ (st + 2 <= Len(stream) /\ stream[st + 1] # 0
                    /\ stream[st + 2] # StartFlag)
                 => (calls[k].err # "none" /\ calls[k].end = st + 2)
            /\ (k < Len(calls)) => calls[k + 1].start = calls[k].end

-----------------------------------------------------------------------------
(* Properties of the user-data assembler *)

\* a valid UserData: a valid address, a functional code of the set or 0xFF,
\* a user functional code exactly when the code is 0xFF, a password exactly
\* on a downlink frame, a split count exactly when the split flag is set
ValidUserData(ud) ==
    /\ AddressValidate(ud.Address) = "none"
    /\ ud.AFN \in {192, 129, 130, 131, 132, 255}
    /\ ud.UserAFN # Nil <=> ud.AFN = 255
    /\ ud.PW # Nil <=> ~DIR(ud.Control)
    /\ IsDIV(ud.Control) <=> ud.Control.divs # Nil

\* C7: for every valid UserData u, NewUserData(u.Bytes()) succeeds and
\* returns a UserData equal to u in every field.
C7_UserDataRoundTrip ==
    (upc = "decoded" /\ ValidUserData(u))
    => (udec.err = "none" /\ udec.ud = u)

\* a valid downlink UserData with a password, no time label and a one-byte
\* data field was decoded to a different value
C7_Witness ==
    /\ upc = "decoded" /\ ValidUserData(u)
    /\ u.PW # Nil /\ u.Tp = NoTimeLabel /\ Len(u.DataField) = 1
    /\ u.Address = AddressV1(<<33, 5, 37>>, 1234)
    /\ udec.err = "none"
    /\ udec.ud.DataField # u.DataField

\* C8: the number of bytes of u.Bytes() is control.Length() + 5 + 1, plus 1
\* for a user functional code, plus len(dataField), plus 2 for a password,
\* plus 7 for a time label.
C8_EncodedLength ==
    upc \in {"encoded", "decoded"}
    => Len(ubytes) =
         ControlLength(u.Control) + 5 + 1
           + (IF u.UserAFN # Nil THEN 1 ELSE 0)
           + Len(u.DataField)
           + (IF u.PW # Nil THEN 2 ELSE 0)
           + (IF u.Tp # NoTimeLabel THEN 7 ELSE 0)

\* C9: on a downlink region whose bytes after the functional code(s), the
\* detected time label removed, number at least 2, the decoded password is
\* the last 2 of them and the data field the others; on an uplink region
\* there is no password and the data field is all of them.
C9_PasswordTwoBytes ==
    (upc = "decoded" /\ udec.err = "none")
    => LET d == udec.ud
           header == ControlLength(d.Control) + 5 + 1
                       + (IF d.UserAFN # Nil THEN 1 ELSE 0)
           trailer == IF d.Tp # NoTimeLabel THEN 7 ELSE 0
           rest == SubSeq(ubytes, header + 1, Len(ubytes) - trailer)
           password == IF d.PW # Nil THEN <<d.PW>> ELSE <<>>
       IN /\ (~DIR(d.Control) /\ Len(rest) >= 2)
               => (password = LastBytes(rest, 2) /\ d.DataField = DropLast(rest, 2))
          /\ DIR(d.Control) => (d.PW = Nil /\ d.DataField = rest)

\* C10: Validate succeeds exactly when the address is valid, the functional
\* code is 0xC0, 0x81, 0x82, 0x83, 0x84 or 0xFF, a user functional code is
\* present when the code is 0xFF, and a password is present on a downlink.
C10_ValidateExactly ==
    upc # "new"
    => (uvalid = "none"
        <=> /\ AddressValidate(u.Address) = "none"
            /\ u.AFN \in {192, 129, 130, 131, 132, 255}
            /\ u.AFN = 255 => u.UserAFN # Nil
            /\ ~DIR(u.Control) => u.PW # Nil)

-----------------------------------------------------------------------------
(* Properties of the address codec *)

\* C11: for every valid address a (format 1 with a 3-byte BCD admin code and
\* a station address other than 0, or format 2 with 4 station-code bytes),
\* ParseAddress(a.Bytes()) succeeds and returns an address of the same format
\* with the same fields; and 5 bytes parse as format 2 exactly when the first
\* byte is 0x00.
C11_AddressRoundTrip ==
    apc = "parsed"
    => /\ avalid = "none" => (aparsed.err = "none" /\ aparsed.addr = address)
       /\ (aparsed.err = "none" /\ aparsed.addr.format = 2) <=> abytes[1] = 0

\* a valid format-1 address came back from ParseAddress as format 2
C11_Witness ==
    /\ apc = "parsed" /\ avalid = "none"
    /\ address.format = 1 /\ aparsed.err = "none" /\ aparsed.addr.format = 2

-----------------------------------------------------------------------------
(* Properties of the control field *)

\* C12: after NewControl(v) and any setter calls, Length() = 2 and
\* len(Bytes()) = 2 exactly when the split flag (bit 6) is set, and both are
\* 1 exactly when it is clear.
C12_LengthFollowsSplitFlag ==
    kpc = "live"
    => /\ IsDIV(ctl) <=> (ControlLength(ctl) = 2 /\ Len(ControlBytes(ctl)) = 2)
       /\ ~IsDIV(ctl) <=> (ControlLength(ctl) = 1 /\ Len(ControlBytes(ctl)) = 1)

\* a Control with the split flag set and a one-byte encoding, after a setter
C12_Witness ==
    /\ kpc = "live" /\ ksteps >= 1
    /\ IsDIV(ctl) /\ ControlLength(ctl) = 1 /\ Len(ControlBytes(ctl)) = 1

-----------------------------------------------------------------------------
(* Properties of the checksum *)

\* the documented algorithm, on a register of 8 bits: bit i of x is x[i]
Bits(b) == [i \in 0..7 |-> (b \div (2 ^ i)) % 2]
\* 1110 0100
PolyBits == [i \in 0..7 |-> IF i \in {7, 6, 5, 2} THEN 1 ELSE 0]
BitXor(x, y) == [i \in 0..7 |-> IF x[i] = y[i] THEN 0 ELSE 1]
BitShiftLeft(x) == [i \in 0..7 |-> IF i = 0 THEN 0 ELSE x[i - 1]]
DocumentedShift(x) ==
    IF x[7] = 1 THEN BitXor(BitShiftLeft(x), PolyBits) ELSE BitShiftLeft(x)

RECURSIVE DocumentedShifts(_, _)
DocumentedShifts(x, n) ==
    IF n = 0 THEN x ELSE DocumentedShifts(DocumentedShift(x), n - 1)

RECURSIVE DocumentedFold(_, _, _, _)
\* the bytes data[lo..hi] in order, the range halved to keep the evaluation
\* shallow
DocumentedFold(x, data, lo, hi) ==
    IF lo > hi THEN x
    ELSE IF lo = hi THEN DocumentedShifts(BitXor(x, Bits(data[lo])), 8)
    ELSE LET mid == (lo + hi) \div 2
             left == DocumentedFold(x, data, lo, mid)
         IN IF left[0] > 1 THEN left ELSE DocumentedFold(left, data, mid + 1, hi)

\* the low 7 bits of the register
DocumentedCS(data) ==
    LET x == DocumentedFold(Bits(0), data, 1, Len(data))
    IN x[0] + 2 * x[1] + 4 * x[2] + 8 * x[3] + 16 * x[4] + 32 * x[5] + 64 * x[6]

C14_TestChecksumAccepted ==
    tpc = "decoded" => tresult.err = "none"

\* the test's own packet was rejected for its checksum
C14_Witness ==
    /\ tpc = "decoded" /\ tdata = VectorRegion /\ tresult.err = "checksum"

-----------------------------------------------------------------------------
(* Properties of the station *)

\* C15: on a running station, a conn.Write started by sendHeartbeat never
\* overlaps a conn.Write started by uploadData: at most one frame write on
\* the shared connection is in flight.
C15_OneWriteInFlight ==
    ~(task["hb"] = "writing" /\ task["up"] = "writing")

\* both writes are in flight on a station that is running and not stopping
C15_Witness ==
    /\ startpc = "returned" /\ running /\ stoppc = "ready"
    /\ task["hb"] = "writing" /\ task["up"] = "writing"

\* C16: each nextSerialNum call returns a value strictly greater than the
\* value returned by every earlier call.
C16_SerialIncreasing ==
    lastSerial # Nil => lastSerial > maxEarlier

\* the call after the one that returned 255 returned 0
C16_Witness ==
    /\ lastSerial = 0 /\ maxEarlier = 255

-----------------------------------------------------------------------------
(* Properties of the server *)

\* C18: the number of connections a worker is serving at the same time never
\* exceeds MaxConns, and a connection that acceptLoop checks while MaxConns
\* connections are being served is closed, no worker being started for it.
C18_MaxConnsEnforced ==
    /\ Cardinality(Serving(cstate)) <= MaxConns
    /\ (looppc \in {"store", "spawn"})
         => Cardinality(Serving(cstate)) < MaxConns

\* a worker has deleted the registry entry of a newer connection from the
\* same remote address, and more than MaxConns connections are served
C18_Witness ==
    /\ Cardinality(Serving(cstate)) = MaxConns + 1
    /\ getConnCount(registry) < MaxConns + 1
    /\ \E c \in ConnIds : cstate[c] = "gone"

-----------------------------------------------------------------------------
(* Properties of the connection worker *)

\* the failures of a single frame, and the failures of the transport
DataLevelCauses ==
    {"start_byte", "second_start", "checksum", "end_flag", "parse", "handler"}
IOLevelCauses ==
    {"read_start", "read_length", "read_second_start", "read_remaining"}

\* C19: after a data-level failure (a byte that is not a start marker, a bad
\* second start marker, a checksum or end-marker failure, user data that
\* cannot be parsed, a HandlePacket error) Handle is still in its loop and
\* attempts the next frame; Handle has returned only after an I/O-level
\* failure, and then the connection is closed.
C19_DataFailureContinues ==
    /\ \A i \in 1..Len(hevents) :
         (hevents[i].cause \in DataLevelCauses /\ hevents[i].code # "none")
         => (i < Len(hevents) \/ hpc = "read")
    /\ hpc = "returned"
         => /\ hevents[Len(hevents)].cause \in IOLevelCauses
            /\ hclosed
    /\ hclosed => hpc = "returned"

\* after a checksum failure a later frame was read and handed to
\* HandlePacket, whose error did not end the loop either; Handle returned
\* when the stream ended
C19_Witness ==
    /\ hpc = "returned" /\ hclosed
    /\ \E i, j, k \in 1..Len(hevents) :
         /\ i < j /\ j < k
         /\ hevents[i].cause = "checksum"
         /\ hevents[j].cause = "packet"
         /\ hevents[k].code = "handler_error"

-----------------------------------------------------------------------------
(* Properties of the end-to-end path *)

\* C20: a valid heartbeat-type frame (uplink control, admin-code address with
\* a station address such as 0x04D2, functional code 0xC0, empty data field)
\* is decoded by DecodePacket and NewUserData without error, and
\* UserData.Bytes and EncodePacket on the result give the original bytes.
C20_HeartbeatReencoded ==
    /\ epc # "failed"
    /\ epc = "encoded" => (eout.err = "none" /\ eout.bytes = eframe)

\* the frame of station 0x04D2 with a split control field came back
\* byte for byte
C20_Witness ==
    /\ epc = "encoded" /\ eout.bytes = eframe
    /\ eud.ud.Address = AddressV1(<<33, 5, 33>>, 1234)
    /\ eud.ud.Control.divs = 3 /\ eud.ud.DataField = <<>>

-----------------------------------------------------------------------------
(* Properties of the packet codec *)

\* C21: whenever Parse succeeds on a byte sequence, Bytes() of the packet it
\* returns is that byte sequence; and for a packet built by NewPacket whose
\* serial number was set afterwards, Parse of its Bytes() succeeds and
\* returns the packet's address, command, serial number, data and checksum.
C21_PacketRoundTrip ==
    /\ ppc = "reencoded" => preenc = pbytes
    /\ (pmode = "build" /\ ppc \in {"parsed", "parse_failed", "reencoded"})
       => /\ pparsed.err = "none"
          /\ pparsed.p.Header.Address = pargs.address
          /\ pparsed.p.Header.Command = pargs.command
          /\ pparsed.p.Header.SerialNum = pargs.serial
          /\ pparsed.p.Data = pargs.data
          /\ pparsed.p.CRC = pkt.CRC

\* a packet with 300 data bytes 0xFF, whose byte sum passes 65535, and a
\* serial number set after NewPacket, went through Bytes, Parse and Bytes
C21_Witness ==
    /\ pmode = "build" /\ ppc = "reencoded"
    /\ pargs.serial = 255 /\ Len(pargs.data) = 300

\* a byte sequence that did not come from Bytes() was parsed and re-encoded
C21_WitnessRaw ==
    /\ pmode = "raw" /\ ppc = "reencoded" /\ pbytes = HeartbeatPacket

-----------------------------------------------------------------------------
(* Properties of the BCD codec *)

\* n < 100^k, for a uint32 n; every uint32 is below 100^5
BelowPow100(n, k) ==
    IF k >= 5 THEN TRUE
    ELSE n.hi < 32768 /\ n.hi * 65536 + n.lo < 100 ^ k

\* the base-100 digit of weight 100^j
RECURSIVE Base100Digit(_, _)
Base100Digit(n, j) ==
    IF j = 0 THEN U32Mod100(n) ELSE Base100Digit(U32Div100(n), j - 1)

\* C22: for every byte count k >= 1 and every n with 0 <= n < 100^k,
\* DecodeInt(EncodeInt(n, k)) = n, EncodeInt(n, k) has exactly k bytes, the
\* most significant base-100 digit pair first, and every byte is valid BCD;
\* and FromBCD(ToBCD(v)) = v for every v in 0..99.
C22_BcdIntRoundTrip ==
    /\ (bmode = "int" /\ bpc \in {"encoded", "decoded"} /\ BelowPow100(bn, bk))
       => /\ Len(benc) = bk
          /\ \A i \in 1..bk :
                /\ BCDIsValid(benc[i])
                /\ HighNibble(benc[i]) * 10 + LowNibble(benc[i])
                   = Base100Digit(bn, bk - i)
    /\ (bmode = "int" /\ bpc = "decoded" /\ BelowPow100(bn, bk))
       => bdec = bn
    /\ (bmode = "byte" /\ bpc = "decoded" /\ bn.lo <= 99)
       => bdec = bn /\ BCDIsValid(benc[1])

\* 0xFFFFFFFF went through EncodeInt with 5 bytes and DecodeInt
C22_Witness ==
    /\ bmode = "int" /\ bpc = "decoded"
    /\ bn = U32(65535, 65535) /\ bk = 5
    /\ benc = <<66, 148, 150, 114, 149>>

-----------------------------------------------------------------------------
(* Properties of the upload payload parser *)

\* C23: when ParseUploadData returns without error, the number of items it
\* returns equals the count declared in the byte after the timestamp and
\* the items are the encoded ones; a payload that declares more items than
\* it contains is rejected with an error.
C23_DeclaredItemCount ==
    (pupc = "returned" /\ pusrc.cut = 0)
    => /\ puresult.err = "none"
          => /\ Len(puresult.data.Items) = pusrc.count
             /\ puresult.data.Items = SubSeq(pusrc.items, 1, pusrc.count)
       /\ pusrc.count > Len(pusrc.items) => puresult.err # "none"

\* the payload of TestParseUploadData was parsed: one Int32 item, ID 1001
C23_Witness ==
    /\ pupc = "returned" /\ pusrc.cut = 0 /\ pusrc.count = 1
    /\ puresult.err = "none"
    /\ puresult.data.Items
       = <<[ID |-> 1001, Type |-> TypeInt32, Value |-> 12345]>>

\* C24: when the peer closes the connection normally (the read of the first
\* byte of the next frame meets end of stream, after zero or more complete
\* frames), Handle returns nil; it returns a non-nil error only for other
\* read failures.
C24_NilOnPeerClose ==
    hpc = "returned"
    => LET last == hevents[Len(hevents)]
           peerClosed == last.cause = "read_start" /\ hfail = IoEOF
       IN  (hret = NilError) <=> peerClosed

\* the peer closed the connection after one complete frame was handled
C24_Witness ==
    /\ hpc = "returned" /\ hfail = IoEOF
    /\ Len(hevents) = 3
    /\ hevents[1].code = "none" /\ hevents[3].cause = "read_start"

-----------------------------------------------------------------------------
(* Properties of the self-report data parser *)

\* C25: for the rain type and every 3-byte BCD data field ParseUploadData
\* returns normally the rain value (the BCD integer divided by 10); for the
\* water-level type and every data field of 4k bytes (k >= 1) it returns
\* normally k water levels; it never reads a byte beyond the data field.
C25_UploadFieldParsed ==
    mpc = "returned"
    => /\ (/\ mtype = DataTypeRain /\ Len(mfield) = 3
           /\ \A i \in 1..3 : BCDIsValid(mfield[i]))
          => /\ mresult.outcome = "ok"
             /\ Len(mresult.frame.Items) = 1
             /\ mresult.frame.Items[1].den = 10
             /\ mresult.frame.Items[1].num
                = FromBCD(mfield[1]) * 10000 + FromBCD(mfield[2]) * 100
                  + FromBCD(mfield[3])
       /\ (/\ mtype = DataTypeWaterLevel
           /\ Len(mfield) >= 4 /\ Len(mfield) % 4 = 0)
          => /\ mresult.outcome = "ok"
             /\ Len(mresult.frame.Items) = Len(mfield) \div 4
       /\ mresult.read <= Len(mfield)

\* a water-level field of 8 bytes was parsed into two levels, the first one
\* 9.912 m
C25_Witness ==
    /\ mpc = "returned" /\ mtype = DataTypeWaterLevel
    /\ mfield = <<18, 153, 0, 0, 1, 0, 0, 0>>
    /\ mresult.outcome = "ok"
    /\ Len(mresult.frame.Items) = 2
    /\ mresult.frame.Items[1].num = 9912

-----------------------------------------------------------------------------
(* Properties of the checksum as an error-detecting code *)

\* C26: for every valid encoded frame and every single bit of any byte of
\* its user-data region, the frame with that bit flipped is rejected by
\* DecodePacket with the checksum error.
C26_SingleBitErrorDetected ==
    (/\ cpc = "decoded" /\ corruption.kind = "region"
     /\ Len(region) >= 1 /\ Len(region) <= MaxFrameLen)
    => decoded.err = "checksum"

\* bit 0 of the last byte of the literal vector was flipped, and the frame
\* was rejected with the checksum error
C26_Witness ==
    /\ cpc = "decoded" /\ region = VectorRegion
    /\ corruption = [kind |-> "region", arg |-> 56]
    /\ decoded.err = "checksum"

-----------------------------------------------------------------------------
(* Properties of NewUserData on arbitrary input *)

\* C27: on every byte sequence NewUserData returns a UserData or an error
\* and reads no index outside the input; on success the parts taken for the
\* control, the address, the functional code(s), the data field, the
\* password and the time label partition the input without gap or overlap.
C27_NoReadOutsideAndPartition ==
    wpc = "returned"
    => /\ wud.err = wtrace.err
       /\ \A i \in wtrace.reads : 0 <= i /\ i < Len(wdata)
       /\ wtrace.err = "none"
          => LET p == wtrace.pieces
             IN  /\ p[1].lo = 0
                 /\ \A j \in 1..5 : p[j].hi = p[j + 1].lo
                 /\ p[6].hi = Len(wdata)
                 /\ \A j \in 1..6 : p[j].lo <= p[j].hi
                 /\ wud.ud.DataField = SubSeq(wdata, p[4].lo + 1, p[4].hi)
                 /\ (wud.ud.PW # Nil) <=> (p[5].hi - p[5].lo = 2)
                 /\ (wud.ud.Tp # NoTimeLabel) <=> (p[6].hi - p[6].lo = 7)

\* a downlink input with a user functional code, one data byte, a password
\* and a time label was parsed
C27_Witness ==
    /\ wpc = "returned" /\ wud.err = "none"
    /\ wud.ud.UserAFN # Nil /\ wud.ud.PW # Nil /\ wud.ud.Tp # NoTimeLabel
    /\ Len(wud.ud.DataField) = 1

-----------------------------------------------------------------------------
(* Properties of the packet counters *)

\* C28: every completed HandlePacket call has incremented the received
\* counter once and exactly one of the sent and dropped counters once, so
\* whenever no HandlePacket call is in progress,
\* PacketsReceived = PacketsSent + PacketsDropped.
C28_CountersBalance ==
    (handled >= 0 /\ \A w \in Workers : wkpc[w] = "idle")
    => /\ PacketsReceived = completed
       /\ PacketsSent + PacketsDropped = completed
       /\ PacketsReceived = PacketsSent + PacketsDropped

\* three calls have completed, made by both workers, some answered and some
\* dropped
C28_Witness ==
    /\ \A w \in Workers : wkpc[w] = "idle"
    /\ completed = 3 /\ PacketsSent >= 1 /\ PacketsDropped >= 1

-----------------------------------------------------------------------------
(* Properties of the station's life cycle *)

\* C29: running is true only while the station holds an established
\* connection; a Start that fails to connect leaves the station not running;
\* and after any sequence of Start and Stop calls the stop channel has been
\* closed at most once.
C29_RunningMeansConnected ==
    lpc # "idle"
    => /\ lrunning => lconn = "open"
       /\ (lhist # <<>> /\ lhist[Len(lhist)] = "start_failed") => ~lrunning
       /\ lcloses <= 1

\* Start connected and Stop stopped the station: not running, the stop
\* channel closed once, the connection closed
C29_Witness ==
    /\ lhist = <<"start_ok", "stop">>
    /\ ~lrunning /\ lcloses = 1 /\ lconn = "closed"

\* C30: on every finite input stream followed by end of stream Handle
\* eventually returns; every loop iteration consumes at least one byte of
\* the stream or makes Handle return; and whenever Handle has returned, the
\* connection has been closed.
C30_HandleTerminates ==
    /\ <>(hpc = "returned")
    /\ [][ReadPacketStep => (hpos' > hpos \/ hpc' = "returned")]_vars
    /\ [](hpc = "returned" => hclosed)

\* Handle has returned, with the connection closed, after it skipped a stray
\* byte, handled a frame and met the end of the stream
C30_Witness ==
    /\ hpc = "returned" /\ hclosed /\ hpos = Len(hstream)
    /\ Len(hevents) = 4
    /\ hevents[1].cause = "start_byte" /\ hevents[2].code = "none"
    /\ hevents[4].cause = "read_start"

=============================================================================
